---- MODULE Spec2Model ----
(***************************************************************************)
(* Model of the outbound-bot ingestion pipeline: the reconcile pass        *)
(* (process_folder) of src/app/webhook.py and of the monolithic            *)
(* src/main.py, the persisted state it loads and saves, the destination    *)
(* sheet it overwrites and the Drive folder it lists.                      *)
(***************************************************************************)
EXTENDS Integers, Sequences, FiniteSets, TLC

(* ------------------------------ bounds -------------------------------- *)
\* number of distinct Drive file ids
MaxFiles == 2
\* modified-times are 1..MaxTime
MaxTime == 2
\* a ZIP yields 0..MaxRows matching rows
MaxRows == 1
\* number of process_folder invocations in a behaviour
MaxClock == 2

\* DedupeCache.ttl_seconds, scaled down from the dataclass default of 600
ttl_seconds == 2
\* DedupeCache.max_size, scaled down from the dataclass default of 2048
max_size == 2
\* number of distinct dedupe keys
MaxKeys == 3
\* time.time() takes the values 0..MaxNow
MaxNow == 5

\* pages of one changes().list scan
MaxPages == 2
\* webhook notifications delivered in a behaviour
MaxRequests == 2

\* CSV and other entries in one archive
MaxEntries == 2
\* records in one CSV entry
MaxRecords == 2

FileIds == 1..MaxFiles
Keys == 1..MaxKeys
\* request-handling threads of the host
Threads == {1, 2}
Times == 1..MaxTime

VARIABLES
    variant,            \* "app": src/app package, "legacy": src/main.py
    force_overwrite,    \* WorkflowConfig.force_overwrite / FORCE_OVERWRITE
    folder,             \* Drive folder: file id -> [mtime, rows]; mtime 0 = not listed
    disk,               \* the persisted state (state.json)
    file,               \* what is at state_path: that JSON, nothing, or damage
    sheet,              \* destination managed range A:J, a sequence of rows
    status,             \* the status cell
    pc,                 \* position of the running pass
    state,              \* the in-memory state dict of the running pass
    ignore_last_dt,     \* the pass's force argument
    result,             \* collect_rows_from_folder's result (and how far it got)
    all_rows,           \* values handed to overwrite_sheet
    calls,              \* collaborator calls of the current pass, in order
    pre,                \* disk and sheet as they were when the pass began
    prev_ok,            \* the previous pass returned normally
    ever_failed,        \* some pass so far raised
    clock,              \* logical time: number of passes begun
    entries,            \* DedupeCache._entries: key -> time.time() of insertion
    time,               \* what time.time() returns
    first,              \* per key, the time of its latest seen() that returned False
    aggr,               \* keys over whose entry a half-TTL prune has run since then
    repeated,           \* keys reported as duplicate since then
    last,               \* the latest seen() call: key, time, result, what preceded it
    tpc,                \* per thread, its position inside seen()
    tkey,               \* per thread, the key argument
    tnow,               \* per thread, the local "now"
    tsnap,              \* per thread, keys of the list(items()) snapshot still to pop
    tret,               \* per thread, the value returned
    webhook_token,      \* AppConfig.webhook_token, "" when none is configured
    webhook_url,        \* WorkflowConfig.webhook_url, "" when none is configured
    registered,         \* the answers of changes().watch so far
    req,                \* headers of the notification being handled
    hpc,                \* position of the webhook route / handle_drive_changes
    hstate,             \* the state dict the route loaded
    resp,               \* the HTTP response of the webhook route
    page_token,         \* handle_drive_changes: local page_token
    changed,            \* handle_drive_changes: local changed
    deleted_zip,        \* handle_drive_changes: local deleted_zip
    new_start_token,    \* handle_drive_changes: local new_start_token
    page,               \* the latest response of changes().list (res)
    hcalls,             \* what the route has called for this notification
    hpre,               \* disk, sheet and cache as they were when it arrived
    served,             \* notifications delivered so far
    handled,            \* per dedupe key, when a delivery was last handled
    hkey,               \* dedupe_key of the notification being handled
    failed,             \* per dedupe key, when its handling last ended in 500
    retry,              \* the with_retries call in progress and its history
    outcome,            \* what the caller of the latest run got back
    raised_exc,         \* the call whose exception left handle_drive_changes
    zip,                \* process_zip at work: the archive and the loop's locals
    env,                \* the AppConfig handed to validate_config, and its outcome
    safe                \* safe_process_folder at work: both with_retries loops

\* the DedupeCache object and its call history
cache_vars == <<entries, time, first, aggr, repeated, last>>
\* the locals of the threads running seen()
thread_vars == <<tpc, tkey, tnow, tsnap, tret>>
\* the webhook route and handle_drive_changes
hook_vars == <<webhook_token, webhook_url, registered, req, hpc, hstate, resp, page_token, changed,
               deleted_zip, new_start_token, page, hcalls, hpre, served,
               handled, hkey, failed>>
\* remote calls seen one at a time, and what the callers of the routes get
other_vars == <<retry, outcome, raised_exc, zip, env, safe, safe>>
\* what lives outside a reconcile pass
web_vars == <<cache_vars, thread_vars, hook_vars, other_vars>>

pass_vars == <<variant, force_overwrite, folder, disk, file, sheet,
               status, pc, state, ignore_last_dt, result, all_rows, calls, pre,
               prev_ok, ever_failed, clock>>

vars == <<pass_vars, web_vars>>

(* --------------------------- values ----------------------------------- *)
\* Python None for a datetime
None == 0
\* JSON null for last_processed_zip_time
NullTs == [t |-> 0, z |-> "null"]
\* header row COLUMNS; data rows are <<file id, index>>
COLUMNS == <<0, 0>>

\* a file that list_zip_files does not return
NoFile == [mtime |-> 0, rows |-> 0]

\* a page token that is None
NoToken == [start |-> 0, page |-> 0]

\* utils.load_state's default when the file is absent or unreadable
load_state_default ==
    [processed_zip_ids |-> {},
     last_processed_zip_time |-> NullTs,
     last_import_row_count |-> 0,
     last_run |-> 0,
     page_token |-> NoToken,
     channel_id |-> 0,
     channel_resource_id |-> "",
     channel_expiration |-> 0]

\* load_state that trusts whatever the dict in memory last held
load_state_unguarded(f, d) == d

\* utils.load_state: json.load of the file, or the default when open or
\* json.load raises (the file is absent, unreadable or not valid JSON)
load_state(f, d) == IF f = "json" THEN d ELSE load_state_default

\* parse_rfc3339: "Z" is replaced by "+00:00", then fromisoformat
parse_rfc3339(ts) == ts.t

\* datetime.isoformat() of an aware UTC datetime: always the +00:00 form
isoformat(dt) == [t |-> dt, z |-> "+00:00"]

\* Drive reports modifiedTime in the Z form
drive_time(t) == [t |-> t, z |-> "Z"]

Listed == {f \in FileIds : folder[f].mtime # 0}

\* one entry of list_zip_files' answer
zip_of(f) == [id |-> f, modifiedTime |-> drive_time(folder[f].mtime)]

\* list_zip_files: the listed files. File ids are interchangeable labels and
\* every assignment of times and rows to them is explored, so the answer is
\* taken in ascending id order without loss of generality.
list_zip_files ==
    LET ids == CHOOSE s \in [1..Cardinality(Listed) -> Listed] :
                   \A i, j \in 1..Cardinality(Listed) : i < j => s[i] < s[j]
    IN  [i \in DOMAIN ids |-> zip_of(ids[i])]

\* process_zip seen from the pass: [] when nothing matches, else header + rows
process_zip(f) ==
    IF folder[f].rows = 0 THEN <<>>
    ELSE <<COLUMNS>> \o [k \in 1..folder[f].rows |-> <<f, k>>]

(* ---------------- collect_rows_from_folder (webhook.py:20-50) ---------- *)
\* what the loop has accumulated; downloaded = ids handed to download_zip
EmptyResult ==
    [rows |-> <<>>, zip_ids |-> <<>>, max_dt |-> None,
     downloaded |-> <<>>, failed |-> FALSE]

Range(s) == {s[i] : i \in DOMAIN s}

\* the threshold: None when forced or when the state holds no timestamp
last_dt_of(st, ign) ==
    IF ign \/ st.last_processed_zip_time = NullTs
    THEN None
    ELSE parse_rfc3339(st.last_processed_zip_time)

\* is_new without the "id not in processed_zip_ids" clause
is_new_unrecorded_ignored(z, last_dt, ign, ids) ==
    \/ force_overwrite
    \/ ign
    \/ (last_dt = None \/ parse_rfc3339(z.modifiedTime) > last_dt)

\* is_new with the threshold test made non-strict
is_new_not_strict(z, last_dt, ign, ids) ==
    \/ force_overwrite
    \/ ign
    \/ (last_dt = None \/ parse_rfc3339(z.modifiedTime) >= last_dt)
    \/ z.id \notin ids

\* the is_new expression of the loop body
is_new(z, last_dt, ign, ids) ==
    \/ force_overwrite
    \/ ign
    \/ (last_dt = None \/ parse_rfc3339(z.modifiedTime) > last_dt)
    \/ z.id \notin ids

\* collect_step with max_dt overwritten by every file that yields rows
collect_step_last_wins(acc, z, last_dt, ign, ids, bad) ==
    LET z_dt == parse_rfc3339(z.modifiedTime)
        rows == process_zip(z.id)
    IN  IF acc.failed \/ ~is_new(z, last_dt, ign, ids) THEN acc
        ELSE IF z.id = bad
        THEN [acc EXCEPT !.downloaded = Append(@, z.id), !.failed = TRUE]
        ELSE IF rows # <<>>
        THEN [acc EXCEPT !.downloaded = Append(@, z.id),
                         !.rows = @ \o Tail(rows),
                         !.zip_ids = Append(@, z.id),
                         !.max_dt = z_dt]
        ELSE [acc EXCEPT !.downloaded = Append(@, z.id)]

\* one iteration of "for z in zips"; bad is the file whose download or
\* extraction raises (0: none does)
collect_step(acc, z, last_dt, ign, ids, bad) ==
    LET z_dt == parse_rfc3339(z.modifiedTime)
        rows == process_zip(z.id)
    IN  IF acc.failed \/ ~is_new(z, last_dt, ign, ids) THEN acc
        ELSE IF z.id = bad
        THEN [acc EXCEPT !.downloaded = Append(@, z.id), !.failed = TRUE]
        ELSE IF rows # <<>>
        THEN [acc EXCEPT !.downloaded = Append(@, z.id),
                         !.rows = @ \o Tail(rows),
                         !.zip_ids = Append(@, z.id),
                         !.max_dt = IF @ = None \/ z_dt > @ THEN z_dt ELSE @]
        ELSE [acc EXCEPT !.downloaded = Append(@, z.id)]

RECURSIVE collect_loop(_, _, _, _, _, _)
collect_loop(acc, zips, last_dt, ign, ids, bad) ==
    IF zips = <<>> THEN acc
    ELSE collect_loop(collect_step(acc, Head(zips), last_dt, ign, ids, bad),
                      Tail(zips), last_dt, ign, ids, bad)

collect_rows_from_folder(zips, st, ign, bad) ==
    LET last_dt == last_dt_of(st, ign)
    IN  collect_loop([EmptyResult EXCEPT !.max_dt = last_dt],
                     zips, last_dt, ign, st.processed_zip_ids, bad)

(* ------------------------- destination sheet -------------------------- *)
\* append_rows_to_sheet: the app package writes header + new rows only;
\* src/main.py reads the existing rows and writes them back in front
append_rows_to_sheet(existing, new_rows) ==
    IF variant = "legacy" /\ existing # <<>>
    THEN <<Head(existing)>> \o Tail(existing) \o new_rows
    ELSE <<COLUMNS>> \o new_rows

(* --------------------------- status cell ------------------------------ *)
StatusBlank == [text |-> "", t |-> 0]
Fetching == [text |-> "Fetching data...", t |-> 0]
\* format_status_now: the pass's wall-clock time, formatted for display
format_status_now == [text |-> "h:mm AM Mon-d", t |-> clock]

(* ---------------------- DedupeCache (utils.py:72-99) ------------------- *)
\* the dict after "self._entries[key] = now"
dict_set(e, key, t) ==
    [x \in DOMAIN e \cup {key} |-> IF x = key THEN t ELSE e[x]]

\* the dict after popping every key of ks
dict_pop(e, ks) == [x \in DOMAIN e \ ks |-> e[x]]

\* "ts < cutoff" of _prune: cutoff is now - ttl_seconds, or
\* now - ttl_seconds / 2 when aggressive (doubled here to stay in integers)
stale(ts, t, aggressive) ==
    IF aggressive THEN 2 * ts < 2 * t - ttl_seconds
    ELSE ts < t - ttl_seconds

\* the keys _prune pops, from its snapshot list(self._entries.items())
prune_keys(e, t, aggressive) == {x \in DOMAIN e : stale(e[x], t, aggressive)}

\* DedupeCache._prune
prune(e, t, aggressive) == dict_pop(e, prune_keys(e, t, aggressive))

\* live with "<" in place of "<="
live_strict(e, key, t) == key \in DOMAIN e /\ t - e[key] < ttl_seconds

\* "ts is not None and (now - ts) <= self.ttl_seconds"
live(e, key, t) == key \in DOMAIN e /\ t - e[key] <= ttl_seconds

\* seen with the stored time refreshed on every hit
seen_refreshing(e, key, t) ==
    LET p == prune(e, t, FALSE)
        ins == dict_set(p, key, t)
    IN  IF live(p, key, t)
        THEN [entries |-> ins, ret |-> TRUE, aggressive |-> FALSE]
        ELSE IF Cardinality(DOMAIN ins) > max_size
        THEN [entries |-> prune(ins, t, TRUE), ret |-> FALSE,
              aggressive |-> TRUE]
        ELSE [entries |-> ins, ret |-> FALSE, aggressive |-> FALSE]

\* DedupeCache.seen run by one thread alone: the dict it leaves, the value it
\* returns, and whether the half-TTL prune ran
seen(e, key, t) ==
    LET p == prune(e, t, FALSE)
        ins == dict_set(p, key, t)
    IN  IF live(p, key, t)
        THEN [entries |-> p, ret |-> TRUE, aggressive |-> FALSE]
        ELSE IF Cardinality(DOMAIN ins) > max_size
        THEN [entries |-> prune(ins, t, TRUE), ret |-> FALSE,
              aggressive |-> TRUE]
        ELSE [entries |-> ins, ret |-> FALSE, aggressive |-> FALSE]

\* no seen() call yet
NoCall == [key |-> 0, now |-> 0, ret |-> FALSE, prior |-> -1,
           pruned |-> FALSE, repeated |-> FALSE]

\* a fresh DedupeCache (__post_init__), nothing called
CacheIdle ==
    /\ entries = <<>>
    /\ time = 0
    /\ first = <<>>
    /\ aggr = {}
    /\ repeated = {}
    /\ last = NoCall

\* no thread is inside seen()
ThreadsIdle ==
    /\ tpc = [t \in Threads |-> "idle"]
    /\ tkey = [t \in Threads |-> 0]
    /\ tnow = [t \in Threads |-> 0]
    /\ tsnap = [t \in Threads |-> {}]
    /\ tret = [t \in Threads |-> FALSE]

(* -------------- webhook route (app/main.py:120-153) values ------------- *)
\* header values of a notification; "absent" is a header that is not sent.
\* h is <<resource state, resource id, message number, channel id>>: the
\* handshake, a change notification, one without resource id, and a request
\* with none of the four headers
Requests ==
    {[token |-> tk, resource_state |-> h[1], resource_id |-> h[2],
      message_number |-> h[3], channel_id |-> h[4]] :
        tk \in {"absent", "s3cret", "wrong"},
        h \in {<<"sync", "res", "1", "chan">>,
               <<"change", "res", "1", "chan">>,
               <<"change", "", "1", "chan">>,
               <<"", "", "", "">>}}

\* no request: none is being handled, or its headers are no longer read
NoReq == [token |-> "-", resource_state |-> "-", resource_id |-> "-",
          message_number |-> "-", channel_id |-> "-"]
NoResp == [code |-> 0, body |-> ""]

\* an authentication that lets every request pass
auth_rejects_never(r) == FALSE

\* require_webhook_auth answers 401: a secret is configured and the
\* X-Goog-Channel-Token header differs from it
auth_rejects(r) == webhook_token # "" /\ r.token # webhook_token

\* build_dedupe_key: the non-empty parts, joined in order
build_dedupe_key(parts) == SelectSeq(parts, LAMBDA part : part # "")

\* no notification is past the duplicate check
NoKey == <<"-">>

\* the key the route computes from the four headers
dedupe_key_of(r) ==
    build_dedupe_key(<<r.resource_id, r.message_number, r.channel_id,
                       r.resource_state>>)

(* --------------- Drive change feed (webhook.py:107-169) ---------------- *)
\* the token after a start token, as newStartPageToken of the last page
new_start(tok) == [start |-> tok.start + 1, page |-> 0]
\* nextPageToken of a page that is not the last
next_page(tok) == [tok EXCEPT !.page = @ + 1]
\* drive_service.get_start_page_token: the feed's current start token
get_start_page_token == [start |-> 1, page |-> 0]

\* file names of change records
Names == {"report.zip", "Report.ZIP", "notes.txt"}
\* str(name).lower()
lower(name) == IF name = "Report.ZIP" THEN "report.zip" ELSE name
\* name.endswith(".zip")
endswith_zip(name) == name \in {"report.zip"}

\* a change whose file metadata is missing
NoMeta(fid) == [fileId |-> fid, has_file |-> FALSE, name |-> "",
                parents |-> {}, trashed |-> FALSE]

\* change records; parents name the watched folder or another one
Changes ==
    {NoMeta(fid) : fid \in FileIds}
    \cup [fileId : FileIds, has_file : {TRUE}, name : Names,
          parents : {{}, {"watched"}, {"other"}}, trashed : BOOLEAN]

NoPage == [changes |-> <<>>, nextPageToken |-> NoToken,
           newStartPageToken |-> NoToken]

\* flags_delete with the test on the id alone, for trashed files too
flags_delete_tracked_only(c, ids) == c.fileId \in ids

\* lines 131-147: does this change set deleted_zip
flags_delete(c, ids) ==
    IF ~c.has_file
    THEN c.fileId \in ids
    ELSE IF c.trashed
    THEN \/ /\ endswith_zip(lower(c.name))
            /\ (c.parents = {} \/ "watched" \in c.parents)
         \/ c.fileId \in ids
    ELSE FALSE

\* lines 131-151: does this change set changed
flags_changed(c) == c.has_file /\ ~c.trashed /\ "watched" \in c.parents

\* "for change in res.get('changes', [])" over one page
RECURSIVE scan_changes(_, _, _)
scan_changes(flags, changes, ids) ==
    IF changes = <<>> THEN flags
    ELSE scan_changes(
             [deleted_zip |-> flags.deleted_zip
                                  \/ flags_delete(Head(changes), ids),
              changed |-> flags.changed \/ flags_changed(Head(changes))],
             Tail(changes), ids)

\* reset_state that forgets the timestamp and the count but keeps the ids
reset_state_keeps_ids(st, run_ts) ==
    [st EXCEPT !.last_processed_zip_time = NullTs,
               !.last_import_row_count = 0,
               !.last_run = run_ts]

\* clear_destination_sheet's reset of the state dict (sheets_service.py:123-127)
reset_state(st, run_ts) ==
    [st EXCEPT !.processed_zip_ids = {},
               !.last_processed_zip_time = NullTs,
               !.last_import_row_count = 0,
               !.last_run = run_ts]

\* a failure answer that repeats the exception
webhook_failure_detailed(e) == [code |-> 500, body |-> e]

\* app/main.py:148-150: log the exception, answer the fixed body
webhook_failure(e) == [code |-> 500, body |-> "webhook failure"]

\* response_of with the flag never reported
response_of_nothing(ch) == [code |-> 200, body |-> "changed: false"]

\* app/main.py:153: jsonify({"changed": changed}), 200, with the value
\* handle_drive_changes returned
response_of(ch) ==
    [code |-> 200, body |-> IF ch THEN "changed: true" ELSE "changed: false"]

\* no notification is being handled
HookLocalsIdle ==
    /\ req = NoReq
    /\ hpc = "idle"
    /\ hstate = load_state_default
    /\ resp = NoResp
    /\ page_token = NoToken
    /\ changed = FALSE
    /\ deleted_zip = FALSE
    /\ new_start_token = NoToken
    /\ page = NoPage
    /\ hcalls = <<>>
    /\ hpre = [disk |-> load_state_default, sheet |-> <<>>, entries |-> <<>>]

\* the webhook route is never called
HookIdle ==
    /\ webhook_token = ""
    /\ webhook_url = ""
    /\ registered = {}
    /\ served = 0
    /\ handled = <<>>
    /\ hkey = NoKey
    /\ failed = <<>>
    /\ HookLocalsIdle

(* ------------------- with_retries (utils.py:37-56) --------------------- *)
\* "attempts: int = 5"
default_attempts == 5

\* what one invocation of the wrapped call gives: its result, or an exception.
\* The status of an HttpError made by googleapiclient is the integer of the
\* HTTP response
Ok == [exc |-> "none", status |-> 200]
HttpError(code) == [exc |-> "HttpError", status |-> code]
OSError == [exc |-> "OSError", status |-> 0]
Outcomes == {Ok, OSError} \cup {HttpError(c) : c \in {429, 499, 500, 599}}

\* should_retry_http_error that accepts every HttpError
should_retry_any_http_error(exc) == exc.exc = "HttpError"

\* _should_retry_http_error; -1 stands for a status int() cannot read, for
\* which the except branch answers True
should_retry_http_error(exc) ==
    IF exc.exc = "HttpError"
    THEN IF exc.status = -1 THEN TRUE
         ELSE 500 <= exc.status /\ exc.status < 600
    ELSE FALSE

\* the remote calls of a notification-triggered pass
Calls == {"changes.getStartPageToken", "changes.list", "files.list",
          "files.get_media", "values.clear", "values.update"}

\* the call sites that go through with_retries: values().clear and
\* values().update (sheets_service.py:93-109, 115-122); the Drive calls are
\* plain .execute() / next_chunk() calls (drive_service.py:22-27, 40, 45;
\* webhook.py:119-128), and handle_drive_changes calls process_folder itself,
\* not safe_process_folder (webhook.py:167)
wrapped(call) == call \in {"values.clear", "values.update"}

\* no call in progress
NoRetry == [pc |-> "idle", call |-> "", attempts |-> 0, attempt |-> 0,
            delay |-> 0, outs |-> <<>>, sleeps |-> <<>>]

RetryIdle == retry = NoRetry

\* no run has come back to its caller, no exception is being handled
CallersIdle ==
    /\ outcome = "none"
    /\ raised_exc = ""

\* retry_step that gives up one failure later
retry_step_one_more(fr, out) ==
    LET fr1 == [fr EXCEPT !.outs = Append(@, out)]
    IN  IF out = Ok THEN [fr1 EXCEPT !.pc = "returned"]
        ELSE IF fr.attempt > fr.attempts \/ ~should_retry_http_error(out)
        THEN [fr1 EXCEPT !.pc = "raised"]
        ELSE [fr1 EXCEPT !.sleeps = Append(@, fr.delay),
                         !.delay = 2 * @,
                         !.attempt = @ + 1]

\* one iteration of "for attempt in range(1, attempts + 1)": func() gives
\* out; a result is returned, a failure is re-raised when it is the last
\* attempt or not retryable, otherwise sleep(delay) and delay *= 2
retry_step(fr, out) ==
    LET fr1 == [fr EXCEPT !.outs = Append(@, out)]
    IN  IF out = Ok THEN [fr1 EXCEPT !.pc = "returned"]
        ELSE IF fr.attempt >= fr.attempts \/ ~should_retry_http_error(out)
        THEN [fr1 EXCEPT !.pc = "raised"]
        ELSE [fr1 EXCEPT !.sleeps = Append(@, fr.delay),
                         !.delay = 2 * @,
                         !.attempt = @ + 1]

\* a call made without with_retries: its result or its exception
direct_step(fr, out) ==
    [fr EXCEPT !.outs = Append(@, out),
               !.pc = IF out = Ok THEN "returned" ELSE "raised"]

(* ------------- safe_process_folder (webhook.py:172-178) ---------------- *)
\* the remote calls of one process_folder, in order, by call site: the two
\* status writes (webhook.py:56 and 66 or 80), the Drive calls of the
\* collection (58), clear and update of overwrite_sheet (69) and the grid
\* read of the dashboard images (84). kind is what the pass finds: no new
\* rows, a merge with SKIP_SEATALK_IMAGES, a merge with images
PassKinds == {"nonew", "merge", "merge_publish"}
PassOps(kind) ==
    CASE kind = "nonew" -> <<"status_fetch", "collect", "status_done">>
      [] kind = "merge" ->
            <<"status_fetch", "collect", "clear", "update", "status_done">>
      [] kind = "merge_publish" ->
            <<"status_fetch", "collect", "clear", "update", "status_done",
              "read_grid">>

\* the destination operations among them: clear, write, status write
DestOps == {"status_fetch", "clear", "update", "status_done"}

\* every Sheets call site is inside a with_retries of its own
\* (sheets_service.py:93, 102, 115, 132, 199); the Drive calls are not
op_wrapped(op) == op # "collect"

\* what the calls answer: a result, a retryable and a non-retryable failure
SafeOutcomes == {Ok, HttpError(500), HttpError(429)}

\* a with_retries loop at its first attempt
new_frame(call, attempts) ==
    [NoRetry EXCEPT !.pc = "try", !.call = call, !.attempts = attempts,
                    !.attempt = 1, !.delay = 1]

\* the loop's locals without the history of outcomes and sleeps
locals(fr) == [fr EXCEPT !.outs = <<>>, !.sleeps = <<>>]

\* the frame of the call site op: with_retries with the default attempts, or
\* the plain call
op_frame(op) ==
    IF op_wrapped(op) THEN new_frame(op, default_attempts)
    ELSE [NoRetry EXCEPT !.pc = "try", !.call = op]

\* safe_process_folder is not running
\* history: passes counts the executions of process_folder, tries the
\* attempts of the destination operation named in counted
NoSafe == [pc |-> "idle", outer |-> NoRetry, inner |-> NoRetry,
           ops |-> <<>>, exc |-> Ok, passes |-> 0,
           counted |-> "", tries |-> 0]

SafeIdle == safe = NoSafe

(* -------------- process_zip (sheets_service.py:20-87) ------------------ *)
\* COLUMNS: three of its ten names, the first, one in the middle, the last
CsvColumns == <<"TO Number", "Remark", "Staging Area ID">>

\* FILTERS, in the order of the dict
FILTERS == <<[k |-> "Receiver type", v |-> "Station"],
             [k |-> "Current Station", v |-> "SOC 5"]>>

\* wanted_cols = list(dict.fromkeys(COLUMNS + list(FILTERS.keys())))
wanted_cols ==
    {CsvColumns[i] : i \in DOMAIN CsvColumns} \cup
    {FILTERS[i].k : i \in DOMAIN FILTERS}

\* str.strip, on the strings that occur in headers and cells
strip(s) ==
    CASE s = " Receiver type" -> "Receiver type"
      [] s = "Current Station " -> "Current Station"
      [] s = "TO Number " -> "TO Number"
      [] s = " Remark" -> "Remark"
      [] s = " Station " -> "Station"
      [] OTHER -> s

\* name.lower() of an entry name
csv_lower(n) == IF n = "B.CSV" THEN "b.csv" ELSE n
\* .endswith(".csv")
endswith_csv(n) == n \in {"a.csv", "b.csv"}

\* the rows of the first line of CSV files met
Headers ==
    {<<"Receiver type", "Current Station", "TO Number", "Remark",
       "Staging Area ID">>,
     <<" Receiver type", "Current Station ", "TO Number ", " Remark",
       "Staging Area ID">>,
     <<"Remark", "Weight", "Current Station", "Receiver type",
       "Staging Area ID", "TO Number">>,
     <<"Receiver type", "Current Station", "TO Number", "Staging Area ID">>,
     <<"Receiver type", "TO Number", "Remark", "Staging Area ID">>}

\* records by what their filter cells and their TO number hold
RecordKinds ==
    {[rt |-> "Station", st |-> "SOC 5", to |-> "TO1"],
     [rt |-> " Station ", st |-> "SOC 5", to |-> "TO2"],
     [rt |-> "Station", st |-> "SOC 1", to |-> "TO3"],
     [rt |-> "Hub", st |-> "SOC 5", to |-> "TO4"]}

\* the cell of a record under a column
cell(kind, col) ==
    CASE col = "Receiver type" -> kind.rt
      [] col = "Current Station" -> kind.st
      [] col = "TO Number" -> kind.to
      [] col = "Remark" -> "Ok"
      [] col = "Staging Area ID" -> "STA"
      [] OTHER -> "9"

SeqsUpTo(S, n) == UNION {[1..m -> S] : m \in 0..n}

\* the members of an archive: a name, the header line, the records' cells
Entries ==
    {[name |-> n, header |-> h,
      records |-> [i \in DOMAIN ks |->
                      [j \in DOMAIN h |-> cell(ks[i], strip(h[j]))]]] :
        n \in {"a.csv", "B.CSV", "notes.txt"},
        h \in Headers,
        ks \in SeqsUpTo(RecordKinds, MaxRecords)}

\* z.namelist() with each member's content
Archives == SeqsUpTo(Entries, MaxEntries)

\* lines 58-66: read_csv keeps the columns whose stripped name is wanted,
\* every cell a string, then the column names are stripped
read_csv(e) ==
    LET h == e.header
        idx == SelectSeq([i \in DOMAIN h |-> i],
                         LAMBDA i : strip(h[i]) \in wanted_cols)
    IN  [columns |-> [j \in DOMAIN idx |-> strip(h[idx[j]])],
         values |-> [r \in DOMAIN e.records |->
                        [j \in DOMAIN idx |-> e.records[r][idx[j]]]]]

has_col(df, c) == \E j \in DOMAIN df.columns : df.columns[j] = c
col_index(df, c) == CHOOSE j \in DOMAIN df.columns : df.columns[j] = c

\* one filter that compares the cell as it is
filter_untrimmed(df, f) ==
    [df EXCEPT !.values =
        SelectSeq(@, LAMBDA r : r[col_index(df, f.k)] = f.v)]

\* line 69: df.loc[df[k].astype(str).str.strip() == v]
filter(df, f) ==
    [df EXCEPT !.values =
        SelectSeq(@, LAMBDA r : strip(r[col_index(df, f.k)]) = f.v)]

\* lines 68-69: df[k] raises KeyError when the entry has no column k
filters_raise(df) == \E i \in DOMAIN FILTERS : ~has_col(df, FILTERS[i].k)

\* lines 68-69 when no filter raises
apply_filters(df) == filter(filter(df, FILTERS[1]), FILTERS[2])

\* lines 74-78: absent destination columns are added as "", then the
\* destination columns are selected in their order
reindex(df) ==
    [r \in DOMAIN df.values |->
        [c \in DOMAIN CsvColumns |->
            IF has_col(df, CsvColumns[c])
            THEN df.values[r][col_index(df, CsvColumns[c])]
            ELSE ""]]

\* a header row in front of every entry's rows
with_header_always(written, new_rows) == <<CsvColumns>> \o new_rows

\* lines 80-84: the header row goes in before the first rows only
with_header(written, new_rows) ==
    IF ~written THEN <<CsvColumns>> \o new_rows ELSE new_rows

\* one round of the loop over z.namelist() (lines 54-84)
process_entry(fr, e) ==
    IF ~endswith_csv(csv_lower(e.name)) THEN fr
    ELSE LET df == read_csv(e)
         IN  IF filters_raise(df) THEN [fr EXCEPT !.pc = "raised"]
             ELSE LET kept == apply_filters(df)
                  IN  IF kept.values = <<>> THEN fr
                      ELSE [fr EXCEPT
                              !.rows = @ \o with_header(fr.header_written,
                                                        reindex(kept)),
                              !.header_written = TRUE]

\* process_zip is not running
NoZip == [archive |-> <<>>, i |-> 0, rows |-> <<>>, header_written |-> FALSE,
          pc |-> "idle"]

ZipIdle == zip = NoZip

(* ------------ get_config, validate_config (config.py:122-159) ---------- *)
\* os.environ.get("APP_ENV", "development").strip().lower()
app_env_of(raw) ==
    CASE raw = "Production" -> "production"
      [] raw = " prod " -> "prod"
      [] raw = "PROD" -> "prod"
      [] OTHER -> raw

\* the AppConfig objects get_config builds: both workflows are always there,
\* ids are stripped strings, the environment name is stripped and lower case
Configs ==
    {[backlogs |-> [drive_parent_folder_id |-> bf, dest_sheet_id |-> bs],
      workflow2 |-> [drive_parent_folder_id |-> wf, dest_sheet_id |-> ws],
      app_env |-> app_env_of(raw),
      webhook_token |-> tk,
      allow_insecure_webhook |-> ins] :
        bf \in {"", "folder123"}, bs \in {"", "sheet123"},
        wf \in {"", "folder456"}, ws \in {"", "sheet456"},
        raw \in {"development", "Production", " prod ", "staging",
                 "production"},
        tk \in {"", "s3cret"},
        ins \in BOOLEAN}

\* lines 139-143: the names collected in missing
missing(cfg) ==
    (IF cfg.backlogs.drive_parent_folder_id = ""
     THEN <<"BACKLOGS_DRIVE_PARENT_FOLDER_ID">> ELSE <<>>) \o
    (IF cfg.backlogs.dest_sheet_id = ""
     THEN <<"BACKLOGS_DEST_SHEET_ID">> ELSE <<>>)

\* a check of workflow2 that wants both ids whenever it is looked at
workflow2_incomplete(cfg) ==
    ~(cfg.workflow2.drive_parent_folder_id # ""
      /\ cfg.workflow2.dest_sheet_id # "")

\* lines 148-150: has_any and not (folder and sheet)
workflow2_half_set(cfg) ==
    LET has_any == cfg.workflow2.drive_parent_folder_id # ""
                   \/ cfg.workflow2.dest_sheet_id # ""
    IN  has_any /\ ~(cfg.workflow2.drive_parent_folder_id # ""
                     /\ cfg.workflow2.dest_sheet_id # "")

\* lines 155-156
production_without_token(cfg) ==
    /\ cfg.app_env \in {"production", "prod"}
    /\ cfg.webhook_token = ""
    /\ ~cfg.allow_insecure_webhook

\* validate_config has not been called
NoEnv == [cfg |-> <<>>, pc |-> "idle", error |-> ""]

EnvIdle == env = NoEnv

(* ------------------------------- Init --------------------------------- *)
Init ==
    /\ variant \in {"app", "legacy"}
    /\ force_overwrite \in BOOLEAN
    /\ (variant = "legacy" => force_overwrite)
    /\ folder \in [FileIds -> {NoFile} \cup [mtime : Times, rows : 0..MaxRows]]
    /\ disk = load_state_default
    /\ file = "absent"
    /\ sheet = <<>>
    /\ status = StatusBlank
    /\ pc = "idle"
    /\ state = load_state_default
    /\ ignore_last_dt = FALSE
    /\ result = EmptyResult
    /\ all_rows = <<>>
    /\ calls = <<>>
    /\ pre = [disk |-> load_state_default, sheet |-> <<>>]
    /\ prev_ok = FALSE
    /\ ever_failed = FALSE
    /\ clock = 0
    /\ CacheIdle
    /\ ThreadsIdle
    /\ HookIdle
    /\ RetryIdle /\ SafeIdle
    /\ CallersIdle
    /\ ZipIdle
    /\ EnvIdle

config == <<variant, force_overwrite>>

(* ------------------------ the Drive folder ---------------------------- *)
\* a ZIP appears in the watched folder
Upload(f, t, r) ==
    /\ pc = "idle"
    /\ folder[f] = NoFile
    /\ folder' = [folder EXCEPT ![f] = [mtime |-> t, rows |-> r]]
    /\ UNCHANGED <<web_vars, config, file, disk, sheet, status, pc, state, ignore_last_dt,
                   result, all_rows, calls, pre, prev_ok, ever_failed,
                   clock>>

\* a listed ZIP is replaced by a newer revision
Modify(f, t, r) ==
    /\ pc = "idle"
    /\ folder[f] # NoFile
    /\ t > folder[f].mtime
    /\ folder' = [folder EXCEPT ![f] = [mtime |-> t, rows |-> r]]
    /\ UNCHANGED <<web_vars, config, file, disk, sheet, status, pc, state, ignore_last_dt,
                   result, all_rows, calls, pre, prev_ok, ever_failed,
                   clock>>

\* a listed ZIP is trashed or moved out of the folder
Remove(f) ==
    /\ pc = "idle"
    /\ folder[f] # NoFile
    /\ folder' = [folder EXCEPT ![f] = NoFile]
    /\ UNCHANGED <<web_vars, config, file, disk, sheet, status, pc, state, ignore_last_dt,
                   result, all_rows, calls, pre, prev_ok, ever_failed,
                   clock>>

(* ------------------- process_folder (webhook.py:53-85) ---------------- *)
\* collect_next_pc without the "if not new_rows" early return
collect_next_pc_no_early_return(res) ==
    IF res.failed THEN "raised" ELSE "append"

\* collect_next_pc with the failure of a file swallowed
collect_next_pc_swallow(res) ==
    IF res.rows = <<>> THEN "status_nonew" ELSE "append"

\* where process_folder goes after collect_rows_from_folder: the exception
\* of a failed download or extraction propagates; "if not new_rows" returns
\* after the status write; otherwise the rows are merged
collect_next_pc(res) ==
    IF res.failed THEN "raised"
    ELSE IF res.rows = <<>> THEN "status_nonew"
    ELSE "append"

\* update_state with the ids replaced instead of united
update_state_replace(st, res, now) ==
    [st EXCEPT !.processed_zip_ids = Range(res.zip_ids),
               !.last_import_row_count = Len(res.rows),
               !.last_processed_zip_time =
                   IF res.max_dt # None THEN isoformat(res.max_dt) ELSE @,
               !.last_run = now]

\* lines 71-77: the in-memory state after a merge
update_state(st, res, now) ==
    [st EXCEPT !.processed_zip_ids = @ \cup Range(res.zip_ids),
               !.last_import_row_count = Len(res.rows),
               !.last_processed_zip_time =
                   IF res.max_dt # None THEN isoformat(res.max_dt) ELSE @,
               !.last_run = now]

\* a save_state that keeps the ids already stored
save_state_merging(st) ==
    [st EXCEPT !.processed_zip_ids = @ \cup disk.processed_zip_ids]

\* utils.save_state: the whole dict replaces the stored one
save_state(st) == st

\* a caller (CLI main, the run route) loads the state and calls process_folder
Start(force) ==
    /\ pc = "idle"
    /\ hpc # "process"
    /\ clock < MaxClock
    /\ clock' = clock + 1
    /\ state' = load_state(file, disk)
    /\ ignore_last_dt' = force
    /\ result' = EmptyResult
    /\ all_rows' = <<>>
    /\ calls' = <<>>
    /\ pre' = [disk |-> disk, sheet |-> sheet]
    /\ pc' = "status_fetch"
    /\ UNCHANGED <<web_vars, config, file, folder, disk, sheet, status, prev_ok,
                   ever_failed>>

\* line 56: update_backlogs_status(sheets, workflow, "Fetching data...")
PF_StatusFetching ==
    /\ pc = "status_fetch"
    /\ status' = Fetching
    /\ calls' = Append(calls, "status")
    /\ pc' = "collect"
    /\ UNCHANGED <<web_vars, config, file, folder, disk, sheet, state, ignore_last_dt,
                   result, all_rows, pre, prev_ok, ever_failed, clock>>

\* line 58: list the folder, then download and extract every new file
PF_Collect ==
    /\ pc = "collect"
    /\ \E bad \in {0} \cup Listed :
          result' = collect_rows_from_folder(list_zip_files, state,
                                             ignore_last_dt, bad)
    /\ calls' = Append(calls, "list")
    /\ pc' = collect_next_pc(result')
    /\ UNCHANGED <<web_vars, config, file, folder, disk, sheet, status, state,
                   ignore_last_dt, all_rows, pre, prev_ok, ever_failed, clock>>

\* lines 64-67: no new rows, only the status cell is written
PF_StatusNoNew ==
    /\ pc = "status_nonew"
    /\ status' = format_status_now
    /\ calls' = Append(calls, "status")
    /\ pc' = "returned"
    /\ UNCHANGED <<web_vars, config, file, folder, disk, sheet, state, ignore_last_dt,
                   result, all_rows, pre, prev_ok, ever_failed, clock>>

\* line 69, append_rows_to_sheet: assemble the values (src/main.py reads the
\* range first)
PF_Append ==
    /\ pc = "append"
    /\ all_rows' = append_rows_to_sheet(sheet, result.rows)
    /\ calls' = IF variant = "legacy" THEN Append(calls, "read") ELSE calls
    /\ pc' = "clear"
    /\ UNCHANGED <<web_vars, config, file, folder, disk, sheet, status, state,
                   ignore_last_dt, result, pre, prev_ok, ever_failed, clock>>

\* overwrite_sheet, first call: values().clear on A:J
PF_Clear ==
    /\ pc = "clear"
    /\ sheet' = <<>>
    /\ calls' = Append(calls, "clear")
    /\ pc' = "update"
    /\ UNCHANGED <<web_vars, config, file, folder, disk, status, state, ignore_last_dt,
                   result, all_rows, pre, prev_ok, ever_failed, clock>>

\* overwrite_sheet, second call: values().update from A1
PF_Update ==
    /\ pc = "update"
    /\ sheet' = all_rows
    /\ calls' = Append(calls, "update")
    /\ pc' = "save"
    /\ UNCHANGED <<web_vars, config, file, folder, disk, status, state, ignore_last_dt,
                   result, all_rows, pre, prev_ok, ever_failed, clock>>

\* PF_Save without the save_state call: only the dict is updated
PF_Save_not_persisted ==
    /\ pc = "save"
    /\ state' = update_state(state, result, clock)
    /\ calls' = calls
    /\ pc' = "status_done"
    /\ UNCHANGED <<web_vars, config, file, folder, disk, sheet, status, ignore_last_dt,
                   result, all_rows, pre, prev_ok, ever_failed, clock>>

\* lines 71-78: update the state dict and save it
PF_Save ==
    /\ pc = "save"
    /\ state' = update_state(state, result, clock)
    /\ disk' = save_state(state')
    /\ file' = "json"
    /\ calls' = Append(calls, "save")
    /\ pc' = "status_done"
    /\ UNCHANGED <<web_vars, config, folder, sheet, status, ignore_last_dt, result,
                   all_rows, pre, prev_ok, ever_failed, clock>>

\* lines 71-78 when writing the state file raises: the dict is already updated
PF_SaveFails ==
    /\ pc = "save"
    /\ state' = update_state(state, result, clock)
    /\ calls' = Append(calls, "save")
    /\ pc' = "raised"
    /\ UNCHANGED <<web_vars, config, file, folder, disk, sheet, status, ignore_last_dt,
                   result, all_rows, pre, prev_ok, ever_failed, clock>>

\* PF_StatusDone with the cell left as it is
PF_StatusDone_not_written ==
    /\ pc = "status_done"
    /\ status' = status
    /\ calls' = Append(calls, "status")
    /\ pc' = "publish"
    /\ UNCHANGED <<web_vars, config, file, folder, disk, sheet, state, ignore_last_dt,
                   result, all_rows, pre, prev_ok, ever_failed, clock>>

\* line 80: the completion time goes to the status cell
PF_StatusDone ==
    /\ pc = "status_done"
    /\ status' = format_status_now
    /\ calls' = Append(calls, "status")
    /\ pc' = "publish"
    /\ UNCHANGED <<web_vars, config, file, folder, disk, sheet, state, ignore_last_dt,
                   result, all_rows, pre, prev_ok, ever_failed, clock>>

\* lines 81-85: send_dashboard_images, unless SKIP_SEATALK_IMAGES is set or
\* no SeaTalk URL is configured. Inside it (sheets_service.py:479-494) a send
\* of an image or of the text that raises is caught and logged; the ranges
\* are rendered before that, outside any handler (see PF_Raise)
PF_Publish ==
    /\ pc = "publish"
    /\ \E skip_seatalk_images, image_fails, text_fails \in BOOLEAN :
          calls' = IF skip_seatalk_images THEN calls
                   ELSE calls \o <<"publish">>
                        \o (IF image_fails THEN <<"log image failed">>
                            ELSE <<>>)
                        \o (IF text_fails THEN <<"log text failed">>
                            ELSE <<>>)
    /\ pc' = "returned"
    /\ UNCHANGED <<web_vars, config, file, folder, disk, sheet, status, state,
                   ignore_last_dt, result, all_rows, pre, prev_ok,
                   ever_failed, clock>>

\* the remote call a position is about to make
call_at(p) ==
    CASE p = "status_fetch" -> "status"
      [] p = "collect" -> "list"
      [] p = "status_nonew" -> "status"
      [] p = "append" -> "read"
      [] p = "clear" -> "clear"
      [] p = "update" -> "update"
      [] p = "status_done" -> "status"
      [] p = "publish" -> "publish"

\* a remote call raises (after with_retries gave up, where it is wrapped):
\* the exception leaves process_folder, with nothing else done at that line.
\* At "publish" the call is the grid read of render_sheet_range_image
\* (sheets_service.py:199-207, reached from 470-475), which
\* send_dashboard_images does not catch
PF_Raise ==
    /\ pc \in {"status_fetch", "collect", "status_nonew", "append", "clear",
               "update", "status_done", "publish"}
    /\ pc = "append" => variant = "legacy"
    /\ calls' = Append(calls, call_at(pc))
    /\ pc' = "raised"
    /\ UNCHANGED <<web_vars, config, file, folder, disk, sheet, status, state,
                   ignore_last_dt, result, all_rows, pre, prev_ok,
                   ever_failed, clock>>

\* process_folder is over; the pass's locals go out of scope. On a normal
\* return the callers of a run (app/main.py:117, 243, 303) save the state once
\* more. handle_drive_changes (webhook.py:168-169) does not: it returns
\* changed, and the route answers 200, or 500 when the pass raised
\* (app/main.py:146-153). An exception of a run is caught by neither the run
\* route nor main (app/main.py:107-118, 287-303): their caller gets it.
Return ==
    /\ pc \in {"returned", "raised"}
    /\ IF variant = "app" /\ pc = "returned" /\ hpc # "process"
       THEN disk' = save_state(state) /\ file' = "json"
       ELSE UNCHANGED <<disk, file>>
    /\ prev_ok' = (pc = "returned")
    /\ ever_failed' = (ever_failed \/ pc = "raised")
    /\ pc' = "idle"
    /\ state' = load_state_default
    /\ ignore_last_dt' = FALSE
    /\ result' = EmptyResult
    /\ all_rows' = <<>>
    /\ calls' = <<>>
    /\ pre' = [disk |-> load_state_default, sheet |-> <<>>]
    /\ IF hpc = "process"
       THEN /\ hpc' = "responded"
            /\ raised_exc' = IF pc = "returned" THEN raised_exc
                             ELSE "process_folder"
            /\ resp' = IF pc = "returned"
                       THEN response_of(changed)
                       ELSE webhook_failure(raised_exc')
            /\ failed' = IF pc = "returned" THEN failed
                         ELSE dict_set(failed, hkey, time)
            /\ outcome' = outcome
       ELSE /\ outcome' = IF pc = "returned" THEN "ok" ELSE "exception"
            /\ UNCHANGED <<hpc, resp, raised_exc, failed>>
    /\ UNCHANGED <<cache_vars, thread_vars, retry, zip, env, safe, webhook_token,
                   webhook_url,
                   registered, hstate, req, page_token,
                   changed, deleted_zip, new_start_token, page, hcalls, hpre,
                   served, handled, hkey>>
    /\ UNCHANGED <<config, folder, sheet, status, clock>>

PassSteps ==
    \/ PF_StatusFetching
    \/ PF_Collect
    \/ PF_StatusNoNew
    \/ PF_Append
    \/ PF_Clear
    \/ PF_Update
    \/ PF_Save
    \/ PF_SaveFails
    \/ PF_StatusDone
    \/ PF_Publish
    \/ PF_Raise
    \/ Return

Environment ==
    \/ \E f \in FileIds, t \in Times, r \in 0..MaxRows : Upload(f, t, r)
    \/ \E f \in FileIds, t \in Times, r \in 0..MaxRows : Modify(f, t, r)
    \/ \E f \in FileIds : Remove(f)

Pass ==
    \/ \E force \in BOOLEAN : Start(force)
    \/ PassSteps

Next == Pass \/ Environment

Spec == Init /\ [][Next]_vars

\* non-forced passes over a folder that does not change
NextIdem == Start(FALSE) \/ PassSteps

SpecIdem == Init /\ [][NextIdem]_vars

(* ------------------ DedupeCache.seen, one caller at a time ------------- *)
\* no reconcile pass exists: the web application has only been created
PassIdle ==
    /\ variant = "app"
    /\ force_overwrite = TRUE
    /\ folder = [f \in FileIds |-> NoFile]
    /\ disk = load_state_default
    /\ file = "absent"
    /\ sheet = <<>>
    /\ status = StatusBlank
    /\ pc = "idle"
    /\ state = load_state_default
    /\ ignore_last_dt = FALSE
    /\ result = EmptyResult
    /\ all_rows = <<>>
    /\ calls = <<>>
    /\ pre = [disk |-> load_state_default, sheet |-> <<>>]
    /\ prev_ok = FALSE
    /\ ever_failed = FALSE
    /\ clock = 0

\* create_app: dedupe_cache = DedupeCache()
InitDedupe ==
    PassIdle /\ CacheIdle /\ ThreadsIdle /\ HookIdle /\ RetryIdle /\ SafeIdle
    /\ CallersIdle
    /\ ZipIdle
    /\ EnvIdle

\* the wall clock advances
Tick ==
    /\ time < MaxNow
    /\ time' = time + 1
    /\ UNCHANGED <<pass_vars, hook_vars, thread_vars, other_vars, entries, first, aggr, repeated,
                   last>>

\* one whole call dedupe_cache.seen(key) at the current time, and what the
\* call history records about it
CallSeen(key) ==
    LET r == seen(entries, key, time)
        dropped == IF r.aggressive THEN DOMAIN entries \ DOMAIN r.entries
                   ELSE {}
    IN  /\ entries' = r.entries
        /\ last' = [key |-> key, now |-> time, ret |-> r.ret,
                    prior |-> IF key \in DOMAIN first THEN first[key] ELSE -1,
                    pruned |-> key \in aggr,
                    repeated |-> key \in repeated]
        /\ first' = IF r.ret THEN first ELSE dict_set(first, key, time)
        /\ aggr' = IF r.ret THEN aggr ELSE (aggr \cup dropped) \ {key}
        /\ repeated' = IF r.ret THEN repeated \cup {key}
                       ELSE repeated \ {key}
        /\ UNCHANGED <<pass_vars, hook_vars, thread_vars, other_vars, time>>

NextDedupe ==
    \/ Tick
    \/ \E key \in Keys : CallSeen(key)

SpecDedupe == InitDedupe /\ [][NextDedupe]_vars

(* --------------- DedupeCache.seen, two request threads ----------------- *)
\* the cache after a burst of first sightings at time 0, no thread inside
InitThreads ==
    /\ PassIdle
    /\ ThreadsIdle
    /\ HookIdle
    /\ RetryIdle /\ SafeIdle
    /\ CallersIdle
    /\ ZipIdle
    /\ EnvIdle
    /\ time = 0
    /\ \E S \in SUBSET Keys : entries = [x \in S |-> 0]
    /\ first = entries
    /\ aggr = {}
    /\ repeated = {}
    /\ last = NoCall

\* line 81: a thread enters seen(key) and reads the clock
T_Call(t, key) ==
    /\ tpc[t] = "idle"
    /\ tkey' = [tkey EXCEPT ![t] = key]
    /\ tnow' = [tnow EXCEPT ![t] = time]
    /\ tpc' = [tpc EXCEPT ![t] = "prune"]
    /\ UNCHANGED <<pass_vars, hook_vars, other_vars, cache_vars, tsnap, tret>>

\* lines 92-97: _prune takes its snapshot list(self._entries.items())
T_Prune(t) ==
    /\ tpc[t] \in {"prune", "prune_aggressive"}
    /\ tsnap' = [tsnap EXCEPT ![t] =
                    prune_keys(entries, tnow[t], tpc[t] = "prune_aggressive")]
    /\ tpc' = [tpc EXCEPT ![t] =
                  IF tpc[t] = "prune" THEN "pop" ELSE "pop_aggressive"]
    /\ UNCHANGED <<pass_vars, hook_vars, other_vars, cache_vars, tkey, tnow, tret>>

\* lines 98-99: one self._entries.pop(key, None) of the loop
T_Pop(t) ==
    /\ tpc[t] \in {"pop", "pop_aggressive"}
    /\ \E x \in tsnap[t] :
          /\ entries' = dict_pop(entries, {x})
          /\ tsnap' = [tsnap EXCEPT ![t] = @ \ {x}]
    /\ UNCHANGED <<pass_vars, hook_vars, other_vars, time, first, aggr, repeated, last, tpc, tkey,
                   tnow, tret>>

\* _prune returns: to line 83 from the first prune, to line 89 from the second
T_PruneDone(t) ==
    /\ tpc[t] \in {"pop", "pop_aggressive"}
    /\ tsnap[t] = {}
    /\ tpc' = [tpc EXCEPT ![t] = IF tpc[t] = "pop" THEN "get" ELSE "done"]
    /\ tret' = [tret EXCEPT ![t] = FALSE]
    /\ UNCHANGED <<pass_vars, hook_vars, other_vars, cache_vars, tkey, tnow, tsnap>>

\* lines 83-85: the lookup; a live entry returns True
T_Get(t) ==
    /\ tpc[t] = "get"
    /\ IF live(entries, tkey[t], tnow[t])
       THEN /\ tret' = [tret EXCEPT ![t] = TRUE]
            /\ tpc' = [tpc EXCEPT ![t] = "done"]
       ELSE /\ tret' = tret
            /\ tpc' = [tpc EXCEPT ![t] = "insert"]
    /\ UNCHANGED <<pass_vars, hook_vars, other_vars, cache_vars, tkey, tnow, tsnap>>

\* line 86: self._entries[key] = now
T_Insert(t) ==
    /\ tpc[t] = "insert"
    /\ entries' = dict_set(entries, tkey[t], tnow[t])
    /\ tpc' = [tpc EXCEPT ![t] = "len"]
    /\ UNCHANGED <<pass_vars, hook_vars, other_vars, time, first, aggr, repeated, last, tkey, tnow,
                   tsnap, tret>>

\* lines 87-89: the size test, then the half-TTL prune or return False
T_Len(t) ==
    /\ tpc[t] = "len"
    /\ tpc' = [tpc EXCEPT ![t] =
                  IF Cardinality(DOMAIN entries) > max_size
                  THEN "prune_aggressive" ELSE "done"]
    /\ tret' = [tret EXCEPT ![t] = FALSE]
    /\ UNCHANGED <<pass_vars, hook_vars, other_vars, cache_vars, tkey, tnow, tsnap>>

NextThreads ==
    \/ Tick
    \/ \E t \in Threads, key \in Keys : T_Call(t, key)
    \/ \E t \in Threads : T_Prune(t)
    \/ \E t \in Threads : T_Pop(t)
    \/ \E t \in Threads : T_PruneDone(t)
    \/ \E t \in Threads : T_Get(t)
    \/ \E t \in Threads : T_Insert(t)
    \/ \E t \in Threads : T_Len(t)

SpecThreads == InitThreads /\ [][NextThreads]_vars

(* ------------- the webhook route and handle_drive_changes -------------- *)
\* the app package serving notifications: a secret may be configured, the
\* folder is empty or holds one file with a matching row, no pass has run,
\* and an earlier notification may have stored a cursor (webhook.py:110-111)
InitHook ==
    /\ variant = "app"
    /\ force_overwrite \in BOOLEAN
    /\ folder \in {[f \in FileIds |-> NoFile],
                    [f \in FileIds |-> IF f = 1 THEN [mtime |-> 1, rows |-> 1]
                                       ELSE NoFile]}
    /\ disk \in {load_state_default,
                  [load_state_default EXCEPT
                      !.page_token = get_start_page_token]}
    /\ file = IF disk = load_state_default THEN "absent" ELSE "json"
    /\ sheet = <<>>
    /\ status = StatusBlank
    /\ pc = "idle"
    /\ state = load_state_default
    /\ ignore_last_dt = FALSE
    /\ result = EmptyResult
    /\ all_rows = <<>>
    /\ calls = <<>>
    /\ pre = [disk |-> load_state_default, sheet |-> <<>>]
    /\ prev_ok = FALSE
    /\ ever_failed = FALSE
    /\ clock = 0
    /\ CacheIdle
    /\ ThreadsIdle
    /\ webhook_token \in {"", "s3cret"}
    /\ webhook_url = "https://hook"
    /\ registered = {}
    /\ served = 0
    /\ handled = <<>>
    /\ hkey = NoKey
    /\ failed = <<>>
    /\ HookLocalsIdle
    /\ RetryIdle /\ SafeIdle
    /\ CallersIdle
    /\ ZipIdle
    /\ EnvIdle

\* a notification is delivered to POST /webhook
WH_Request(r) ==
    /\ hpc = "idle"
    /\ served < MaxRequests
    /\ served' = served + 1
    /\ req' = r
    /\ hpre' = [disk |-> disk, sheet |-> sheet, entries |-> entries]
    /\ hpc' = "auth"
    /\ UNCHANGED <<pass_vars, cache_vars, thread_vars, other_vars, webhook_token, webhook_url, registered, hstate, resp,
                   page_token, changed, deleted_zip, new_start_token, page,
                   hcalls, handled, hkey, failed>>

\* app/main.py:122-124 and auth.py:8-14
WH_Auth ==
    /\ hpc = "auth"
    /\ IF auth_rejects(req)
       THEN /\ resp' = [code |-> 401, body |-> "invalid token"]
            /\ hpc' = "responded"
       ELSE /\ resp' = resp
            /\ hpc' = "sync"
    /\ UNCHANGED <<pass_vars, cache_vars, thread_vars, other_vars, webhook_token, webhook_url, registered, hstate, req,
                   page_token, changed, deleted_zip, new_start_token, page,
                   hcalls, hpre, served, handled, hkey, failed>>

\* WH_Sync with the handshake test after the dedupe step
sync_next_late(r) == "dedupe"

\* app/main.py:126-128: where the route goes after reading the
\* resource-state header
sync_next(r) == IF r.resource_state = "sync" THEN "responded" ELSE "dedupe"

WH_Sync ==
    /\ hpc = "sync"
    /\ hpc' = sync_next(req)
    /\ resp' = IF hpc' = "responded" THEN [code |-> 200, body |-> ""]
               ELSE resp
    /\ UNCHANGED <<pass_vars, cache_vars, thread_vars, other_vars, webhook_token, webhook_url, registered, hstate, req,
                   page_token, changed, deleted_zip, new_start_token, page,
                   hcalls, hpre, served, handled, hkey, failed>>

\* dedupe_next with the duplicate handled like a new notification
dedupe_next_ignored(key, dup) == "load"

\* app/main.py:138-139: a duplicate is answered at once
dedupe_next(key, dup) == IF key # <<>> /\ dup THEN "responded" ELSE "load"

\* app/main.py:130-139: build the key and ask the cache
WH_Dedupe ==
    /\ hpc = "dedupe"
    /\ LET key == dedupe_key_of(req)
           r == seen(entries, key, time)
       IN  /\ entries' = IF key # <<>> THEN r.entries ELSE entries
           /\ hcalls' = IF key # <<>> THEN Append(hcalls, "seen") ELSE hcalls
           /\ hpc' = dedupe_next(key, r.ret)
           /\ resp' = IF hpc' = "responded"
                      THEN [code |-> 200, body |-> "deduped"]
                      ELSE resp
    /\ UNCHANGED <<pass_vars, thread_vars, other_vars, time, first, aggr, repeated, last,
                   webhook_token, webhook_url, registered, hstate, req, page_token, changed, deleted_zip,
                   new_start_token, page, hpre, served, handled, hkey, failed>>

\* hdc_entry with the scan started from a null cursor
hdc_entry_no_bootstrap(tok) == "list"

\* webhook.py:108-109: no cursor means bootstrap
hdc_entry(tok) == IF tok = NoToken THEN "start_token" ELSE "list"

\* app/main.py:142-147 and webhook.py:108-116: load the state and enter
\* handle_drive_changes; the request's headers are not read again
WH_Load ==
    /\ hpc = "load"
    /\ hstate' = load_state(file, disk)
    /\ page_token' = hstate'.page_token
    /\ changed' = FALSE
    /\ deleted_zip' = FALSE
    /\ new_start_token' = NoToken
    /\ hcalls' = Append(hcalls, "load_state")
    /\ hpc' = hdc_entry(hstate'.page_token)
    /\ req' = NoReq
    /\ handled' = dict_set(handled, dedupe_key_of(req), time)
    /\ hkey' = dedupe_key_of(req)
    /\ UNCHANGED <<state, config, file, folder, disk, sheet, status, pc, ignore_last_dt,
                   result, all_rows, calls, pre, prev_ok, ever_failed, clock,
                   cache_vars, thread_vars, other_vars, webhook_token, webhook_url, registered, resp, page,
                   hpre, served, failed>>

\* webhook.py:110-112: fetch a start token, save it, return False
HDC_Bootstrap ==
    /\ hpc = "start_token"
    /\ hstate' = [hstate EXCEPT !.page_token = get_start_page_token]
    /\ disk' = save_state(hstate')
    /\ file' = "json"
    /\ hcalls' = hcalls \o <<"get_start_page_token", "save_state">>
    /\ resp' = response_of(FALSE)
    /\ hpc' = "responded"
    /\ UNCHANGED <<state, config, folder, sheet, status, pc, ignore_last_dt,
                   result, all_rows, calls, pre, prev_ok, ever_failed, clock,
                   cache_vars, thread_vars, other_vars, webhook_token, webhook_url, registered, req, page_token,
                   changed, deleted_zip, new_start_token, page, hpre, served, handled, hkey, failed>>

\* webhook.py:119-128: one changes().list call of "while page_token"; Drive
\* answers a page (none or one change record; a longer page acts like
\* several of these) that carries nextPageToken, or newStartPageToken when
\* it is the last
HDC_List ==
    /\ hpc = "list"
    /\ \E cs \in {<<>>} \cup {<<c>> : c \in Changes}, more \in BOOLEAN :
          /\ more => page_token.page + 1 < MaxPages
          /\ page' = [changes |-> cs,
                      nextPageToken |-> IF more THEN next_page(page_token)
                                        ELSE NoToken,
                      newStartPageToken |-> IF more THEN NoToken
                                            ELSE new_start(page_token)]
    /\ hcalls' = Append(hcalls, "changes.list")
    /\ hpc' = "scan"
    /\ UNCHANGED <<pass_vars, cache_vars, thread_vars, other_vars, webhook_token, webhook_url, registered, hstate, req,
                   resp, page_token, changed, deleted_zip, new_start_token,
                   hpre, served, handled, hkey, failed>>

\* webhook.py:130-154: the page's changes are classified, then the loop
\* takes the next page token; the response is not read again
HDC_Scan ==
    /\ hpc = "scan"
    /\ LET flags == scan_changes([deleted_zip |-> deleted_zip,
                                  changed |-> changed],
                                 page.changes, hstate.processed_zip_ids)
       IN  /\ deleted_zip' = flags.deleted_zip
           /\ changed' = flags.changed
    /\ page_token' = page.nextPageToken
    /\ new_start_token' = IF page.newStartPageToken # NoToken
                          THEN page.newStartPageToken ELSE new_start_token
    /\ page' = NoPage
    /\ hpc' = IF page_token' # NoToken THEN "list" ELSE "save_cursor"
    /\ UNCHANGED <<pass_vars, cache_vars, thread_vars, other_vars, webhook_token, webhook_url, registered, hstate, req,
                   resp, hcalls, hpre, served, handled, hkey, failed>>

\* HDC_SaveCursor with the cursor left for the saves of the resolution
HDC_SaveCursor_deferred ==
    /\ hpc = "save_cursor"
    /\ hstate' = [hstate EXCEPT !.page_token = new_start_token]
    /\ hpc' = "resolve"
    /\ UNCHANGED <<state, config, file, folder, disk, sheet, status, pc, ignore_last_dt,
                   result, all_rows, calls, pre, prev_ok, ever_failed, clock,
                   cache_vars, thread_vars, other_vars, webhook_token, webhook_url, registered, req, resp,
                   page_token, changed, deleted_zip, new_start_token, page,
                   hcalls, hpre, served, handled, hkey, failed>>

\* webhook.py:156-158: the new start token becomes the cursor and is saved
HDC_SaveCursor ==
    /\ hpc = "save_cursor"
    /\ IF new_start_token # NoToken
       THEN /\ hstate' = [hstate EXCEPT !.page_token = new_start_token]
            /\ disk' = save_state(hstate')
            /\ file' = "json"
            /\ hcalls' = Append(hcalls, "save_state")
       ELSE UNCHANGED <<hstate, disk, file, hcalls>>
    /\ hpc' = "resolve"
    /\ UNCHANGED <<state, config, folder, sheet, status, pc, ignore_last_dt,
                   result, all_rows, calls, pre, prev_ok, ever_failed, clock,
                   cache_vars, thread_vars, other_vars, webhook_token, webhook_url, registered, req, resp,
                   page_token, changed, deleted_zip, new_start_token, page,
                   hpre, served, handled, hkey, failed>>

\* HDC_Clear with the cursor and the watch registration reset as well
HDC_Clear_to_initial ==
    /\ hpc = "resolve"
    /\ deleted_zip
    /\ sheet' = <<>>
    /\ hstate' = [load_state_default EXCEPT !.last_run = clock]
    /\ hcalls' = Append(hcalls, "clear")
    /\ hpc' = "clear_save"
    /\ UNCHANGED <<state, config, file, folder, disk, status, pc, ignore_last_dt,
                   result, all_rows, calls, pre, prev_ok, ever_failed, clock,
                   cache_vars, thread_vars, other_vars, webhook_token, webhook_url, registered, req, resp,
                   page_token, changed, deleted_zip, new_start_token, page,
                   hpre, served, handled, hkey, failed>>

\* webhook.py:160-162: clear_destination_sheet clears A:J and resets the dict
HDC_Clear ==
    /\ hpc = "resolve"
    /\ deleted_zip
    /\ sheet' = <<>>
    /\ hstate' = reset_state(hstate, clock)
    /\ hcalls' = Append(hcalls, "clear")
    /\ hpc' = "clear_save"
    /\ UNCHANGED <<state, config, file, folder, disk, status, pc, ignore_last_dt,
                   result, all_rows, calls, pre, prev_ok, ever_failed, clock,
                   cache_vars, thread_vars, other_vars, webhook_token, webhook_url, registered, req, resp,
                   page_token, changed, deleted_zip, new_start_token, page,
                   hpre, served, handled, hkey, failed>>

\* webhook.py:163-164: save the reset state, return True
HDC_ClearSave ==
    /\ hpc = "clear_save"
    /\ disk' = save_state(hstate)
    /\ file' = "json"
    /\ hcalls' = Append(hcalls, "save_state")
    /\ resp' = response_of(TRUE)
    /\ hpc' = "responded"
    /\ UNCHANGED <<config, folder, sheet, status, pc, state, ignore_last_dt,
                   result, all_rows, calls, pre, prev_ok, ever_failed, clock,
                   cache_vars, thread_vars, other_vars, webhook_token, webhook_url, registered, hstate, req, page_token,
                   changed, deleted_zip, new_start_token, page, hpre, served, handled, hkey, failed>>

\* webhook.py:166-168: process_folder(..., state, ignore_last_dt=False) on
\* the handler's own state dict
HDC_ProcessFolder ==
    /\ hpc = "resolve"
    /\ pc = "idle"
    /\ ~deleted_zip
    /\ changed
    /\ clock < MaxClock
    /\ clock' = clock + 1
    /\ state' = hstate
    /\ ignore_last_dt' = FALSE
    /\ result' = EmptyResult
    /\ all_rows' = <<>>
    /\ calls' = <<>>
    /\ pre' = [disk |-> disk, sheet |-> sheet]
    /\ pc' = "status_fetch"
    /\ hcalls' = Append(hcalls, "process_folder")
    /\ hpc' = "process"
    /\ UNCHANGED <<config, file, folder, disk, sheet, status, prev_ok,
                   ever_failed, cache_vars, thread_vars, other_vars, webhook_token, webhook_url, registered, hstate, req,
                   resp, page_token, changed, deleted_zip, new_start_token,
                   page, hpre, served, handled, hkey, failed>>

\* webhook.py:169 with changed False: nothing to do
HDC_NoAction ==
    /\ hpc = "resolve"
    /\ ~deleted_zip
    /\ ~changed
    /\ resp' = response_of(changed)
    /\ hpc' = "responded"
    /\ UNCHANGED <<pass_vars, cache_vars, thread_vars, other_vars, webhook_token, webhook_url, registered, hstate, req,
                   page_token, changed, deleted_zip, new_start_token, page,
                   hcalls, hpre, served, handled, hkey, failed>>

\* a Drive or Sheets call of handle_drive_changes raises: the route catches
\* it and answers 500 (app/main.py:148-150)
HDC_Raise ==
    /\ \/ hpc \in {"start_token", "list"}
       \/ hpc = "resolve" /\ deleted_zip
    /\ hcalls' = Append(hcalls,
                        CASE hpc = "start_token" -> "get_start_page_token"
                          [] hpc = "list" -> "changes.list"
                          [] hpc = "resolve" -> "clear")
    /\ raised_exc' = hcalls'[Len(hcalls')]
    /\ resp' = webhook_failure(raised_exc')
    /\ failed' = dict_set(failed, hkey, time)
    /\ hpc' = "responded"
    /\ UNCHANGED <<pass_vars, cache_vars, thread_vars, retry, outcome, zip, env, safe,
                   webhook_token, webhook_url, registered, hstate, req,
                   page_token, changed, deleted_zip, new_start_token, page,
                   hpre, served, handled, hkey>>

\* the response is sent; the request's locals go out of scope
WH_Done ==
    /\ hpc = "responded"
    /\ hstate' = load_state_default
    /\ req' = NoReq
    /\ hpc' = "idle"
    /\ resp' = NoResp
    /\ page_token' = NoToken
    /\ changed' = FALSE
    /\ deleted_zip' = FALSE
    /\ new_start_token' = NoToken
    /\ page' = NoPage
    /\ hcalls' = <<>>
    /\ hpre' = [disk |-> load_state_default, sheet |-> <<>>, entries |-> <<>>]
    /\ raised_exc' = ""
    /\ hkey' = NoKey
    /\ UNCHANGED <<state, config, file, folder, disk, sheet, status, pc, ignore_last_dt,
                   result, all_rows, calls, pre, prev_ok, ever_failed, clock,
                   cache_vars, thread_vars, retry, outcome, zip, env, safe,
                   webhook_token,
                   webhook_url, registered, served, handled, failed>>

HookSteps ==
    \/ WH_Auth
    \/ WH_Sync
    \/ WH_Dedupe
    \/ WH_Load
    \/ HDC_Bootstrap
    \/ HDC_List
    \/ HDC_Scan
    \/ HDC_SaveCursor
    \/ HDC_Clear
    \/ HDC_ClearSave
    \/ HDC_ProcessFolder
    \/ HDC_NoAction
    \/ HDC_Raise
    \/ WH_Done

\* time passes between two notifications, up to just over the TTL
TickBetween ==
    /\ hpc = "idle"
    /\ served \in 1..(MaxRequests - 1)
    /\ time <= ttl_seconds
    /\ Tick

\* notifications arrive one at a time
NextHook ==
    \/ \E r \in Requests : WH_Request(r)
    \/ HookSteps
    \/ PassSteps
    \/ TickBetween

SpecHook == InitHook /\ [][NextHook]_vars

(* ------------------- the watch and status routes ----------------------- *)
\* watch_fields with the resource id of the answer dropped
watch_fields_without_resource(st, res) ==
    [st EXCEPT !.channel_id = res.id,
               !.channel_expiration = res.expiration]

\* webhook.py:100-102: the three channel fields are taken from the answer
watch_fields(st, res) ==
    [st EXCEPT !.channel_id = res.id,
               !.channel_resource_id = res.resourceId,
               !.channel_expiration = res.expiration]

\* answers of changes().watch to request number k: the channel id is the
\* uuid4 sent in the body, which no other request sends
WatchResponses(k) ==
    {[id |-> k, resourceId |-> "resA", expiration |-> 1],
     [id |-> k, resourceId |-> "resB", expiration |-> 2]}

\* POST /watch is called (/watch/renew and /watch/auto-renew run the same
\* steps and differ in the text of their answers)
W_Request(tk) ==
    /\ hpc = "idle"
    /\ served < MaxRequests
    /\ served' = served + 1
    /\ req' = [NoReq EXCEPT !.token = tk]
    /\ hpre' = [disk |-> disk, sheet |-> sheet, entries |-> entries]
    /\ hpc' = "w_auth"
    /\ UNCHANGED <<pass_vars, cache_vars, thread_vars, other_vars,
                   webhook_token, webhook_url, registered, hstate, resp,
                   page_token, changed, deleted_zip, new_start_token, page,
                   hcalls, handled, hkey, failed>>

\* app/main.py:49-51
W_Auth ==
    /\ hpc = "w_auth"
    /\ IF auth_rejects(req)
       THEN /\ resp' = [code |-> 401, body |-> "invalid token"]
            /\ hpc' = "responded"
       ELSE /\ resp' = resp
            /\ hpc' = "w_load"
    /\ UNCHANGED <<pass_vars, cache_vars, thread_vars, other_vars,
                   webhook_token, webhook_url, registered, hstate, req,
                   page_token, changed, deleted_zip, new_start_token, page,
                   hcalls, hpre, served, handled, hkey, failed>>

\* app/main.py:52
W_Load ==
    /\ hpc = "w_load"
    /\ hstate' = load_state(file, disk)
    /\ hcalls' = Append(hcalls, "load_state")
    /\ hpc' = "w_token"
    /\ UNCHANGED <<pass_vars, cache_vars, thread_vars, other_vars,
                   webhook_token, webhook_url, registered, req, resp,
                   page_token, changed, deleted_zip, new_start_token, page,
                   hpre, served, handled, hkey, failed>>

\* webhook.py:89-92: without a webhook URL a ValueError, which the route
\* answers with 400 (app/main.py:56-57); else the stored cursor, or a fresh
\* start token, goes into the dict
W_Token ==
    /\ hpc = "w_token"
    /\ IF webhook_url = ""
       THEN /\ resp' = [code |-> 400, body |-> "WEBHOOK_URL is required"]
            /\ hpc' = "responded"
            /\ UNCHANGED <<hstate, hcalls>>
       ELSE /\ hstate' = IF hstate.page_token # NoToken THEN hstate
                         ELSE [hstate EXCEPT
                                  !.page_token = get_start_page_token]
            /\ hcalls' = IF hstate.page_token # NoToken THEN hcalls
                         ELSE Append(hcalls, "get_start_page_token")
            /\ hpc' = "w_watch"
            /\ resp' = resp
    /\ UNCHANGED <<pass_vars, cache_vars, thread_vars, other_vars,
                   webhook_token, webhook_url, registered, req,
                   page_token, changed, deleted_zip, new_start_token, page,
                   hpre, served, handled, hkey, failed>>

\* webhook.py:94-102: changes().watch answers res
W_Watch(res) ==
    /\ hpc = "w_watch"
    /\ hstate' = watch_fields(hstate, res)
    /\ registered' = registered \cup {res}
    /\ hcalls' = Append(hcalls, "changes.watch")
    /\ hpc' = "w_save"
    /\ UNCHANGED <<pass_vars, cache_vars, thread_vars, other_vars,
                   webhook_token, webhook_url, req, resp,
                   page_token, changed, deleted_zip, new_start_token, page,
                   hpre, served, handled, hkey, failed>>

\* webhook.py:103-104 and app/main.py:61
W_Save ==
    /\ hpc = "w_save"
    /\ disk' = save_state(hstate)
    /\ file' = "json"
    /\ hcalls' = Append(hcalls, "save_state")
    /\ resp' = [code |-> 200, body |-> "watch"]
    /\ hpc' = "responded"
    /\ UNCHANGED <<state, config, folder, sheet, status, pc, ignore_last_dt,
                   result, all_rows, calls, pre, prev_ok, ever_failed, clock,
                   cache_vars, thread_vars, other_vars, webhook_token,
                   webhook_url, registered, hstate, req, page_token, changed,
                   deleted_zip, new_start_token, page, hpre, served, handled, hkey, failed>>

\* getStartPageToken or changes().watch raises: app/main.py:58-60
W_Raise ==
    /\ \/ hpc = "w_token" /\ webhook_url # "" /\ hstate.page_token = NoToken
       \/ hpc = "w_watch"
    /\ hcalls' = Append(hcalls, IF hpc = "w_token" THEN "get_start_page_token"
                                ELSE "changes.watch")
    /\ resp' = [code |-> 500, body |-> "watch registration failed"]
    /\ hpc' = "responded"
    /\ UNCHANGED <<pass_vars, cache_vars, thread_vars, other_vars,
                   webhook_token, webhook_url, registered, hstate, req,
                   page_token, changed, deleted_zip, new_start_token, page,
                   hpre, served, handled, hkey, failed>>

WatchSteps ==
    \/ W_Auth
    \/ W_Load
    \/ W_Token
    \/ \E res \in WatchResponses(served) : W_Watch(res)
    \/ W_Save
    \/ W_Raise

\* GET /status (app/main.py:35-45): the loaded state is reported
S_Status ==
    /\ hpc = "idle"
    /\ served < MaxRequests
    /\ served' = served + 1
    /\ hpre' = [disk |-> disk, sheet |-> sheet, entries |-> entries]
    /\ hstate' = load_state(file, disk)
    /\ hcalls' = <<"load_state">>
    /\ resp' = [code |-> 200, body |-> "status"]
    /\ hpc' = "responded"
    /\ UNCHANGED <<pass_vars, cache_vars, thread_vars, other_vars,
                   webhook_token, webhook_url, registered, req,
                   page_token, changed, deleted_zip, new_start_token, page,
                   handled, hkey, failed>>

\* the state file is deleted, made unreadable, or left with text that is not
\* JSON
Damage(kind) ==
    /\ pc = "idle"
    /\ hpc = "idle"
    /\ file' = kind
    /\ UNCHANGED <<web_vars, config, folder, disk, sheet, status, pc, state,
                   ignore_last_dt, result, all_rows, calls, pre, prev_ok,
                   ever_failed, clock>>

(* ---------------- the routes, one operation at a time ------------------ *)
\* notifications with two message numbers, with and without the secret
RouteRequests ==
    {[token |-> tk, resource_state |-> "change", resource_id |-> "res",
      message_number |-> n, channel_id |-> "chan"] :
        tk \in {"s3cret", "wrong"}, n \in {"1", "2"}}

\* as InitHook; the webhook URL may be missing from the configuration
InitRoutes ==
    /\ variant = "app"
    /\ force_overwrite = FALSE
    /\ folder = [f \in FileIds |-> IF f = 1 THEN [mtime |-> 1, rows |-> 1]
                                   ELSE NoFile]
    /\ disk = load_state_default
    /\ file = "absent"
    /\ sheet = <<>>
    /\ status = StatusBlank
    /\ pc = "idle"
    /\ state = load_state_default
    /\ ignore_last_dt = FALSE
    /\ result = EmptyResult
    /\ all_rows = <<>>
    /\ calls = <<>>
    /\ pre = [disk |-> load_state_default, sheet |-> <<>>]
    /\ prev_ok = FALSE
    /\ ever_failed = FALSE
    /\ clock = 0
    /\ CacheIdle
    /\ ThreadsIdle
    /\ webhook_token \in {"", "s3cret"}
    /\ webhook_url \in {"", "https://hook"}
    /\ registered = {}
    /\ served = 0
    /\ handled = <<>>
    /\ hkey = NoKey
    /\ failed = <<>>
    /\ HookLocalsIdle
    /\ RetryIdle /\ SafeIdle
    /\ CallersIdle
    /\ ZipIdle
    /\ EnvIdle

\* POST /run, or the command line (app/main.py:107-118, 287-303)
RunRequest(force) ==
    /\ hpc = "idle"
    /\ Start(force)

\* POST /webhook while nothing else runs
NotifyRequest(r) ==
    /\ pc = "idle"
    /\ WH_Request(r)

\* POST /watch while nothing else runs
WatchRequest(tk) ==
    /\ pc = "idle"
    /\ W_Request(tk)

\* GET /status while nothing else runs
StatusRequest ==
    /\ pc = "idle"
    /\ S_Status

NextRoutes ==
    \/ \E force \in BOOLEAN : RunRequest(force)
    \/ \E r \in RouteRequests : NotifyRequest(r)
    \/ \E tk \in {"s3cret", "wrong"} : WatchRequest(tk)
    \/ StatusRequest
    \/ \E kind \in {"absent", "unreadable", "invalid"} : Damage(kind)
    \/ PassSteps
    \/ HookSteps
    \/ WatchSteps

SpecRoutes == InitRoutes /\ [][NextRoutes]_vars

(* --------------- a run and a notification that overlap ----------------- *)
\* change notifications, with and without the secret
RaceRequests ==
    {[token |-> tk, resource_state |-> "change", resource_id |-> "res",
      message_number |-> "1", channel_id |-> "chan"] :
        tk \in {"s3cret", "wrong"}}

\* as InitHook, with a secret configured and one file in the folder
InitRace ==
    /\ InitHook
    /\ force_overwrite = FALSE
    /\ webhook_token = "s3cret"
    /\ folder[1] # NoFile

\* nothing in the routes or in process_folder holds a lock: POST /run or the
\* command line may begin while a notification is being handled, and the
\* other way round
NextRace ==
    \/ \E force \in BOOLEAN : Start(force)
    \/ \E r \in RaceRequests : WH_Request(r)
    \/ PassSteps
    \/ HookSteps

SpecRace == InitRace /\ [][NextRace]_vars

(* ----------------- remote calls and with_retries ----------------------- *)
InitRetry == InitDedupe

\* with_retries(func, label, attempts) is entered for a wrapped call
R_WithRetries(call, attempts) ==
    /\ retry.pc = "idle"
    /\ wrapped(call)
    /\ retry' = [NoRetry EXCEPT !.pc = "try", !.call = call,
                                !.attempts = attempts, !.attempt = 1,
                                !.delay = 1]
    /\ UNCHANGED <<pass_vars, cache_vars, thread_vars, hook_vars, outcome,
                   raised_exc, zip, env, safe>>

\* a call site without with_retries is reached
R_Direct(call) ==
    /\ retry.pc = "idle"
    /\ ~wrapped(call)
    /\ retry' = [NoRetry EXCEPT !.pc = "try", !.call = call]
    /\ UNCHANGED <<pass_vars, cache_vars, thread_vars, hook_vars, outcome,
                   raised_exc, zip, env, safe>>

\* the remote call is made and gives out
R_Invoke(out) ==
    /\ retry.pc = "try"
    /\ retry' = IF wrapped(retry.call) THEN retry_step(retry, out)
                ELSE direct_step(retry, out)
    /\ UNCHANGED <<pass_vars, cache_vars, thread_vars, hook_vars, outcome,
                   raised_exc, zip, env, safe>>

\* the caller has the result or the exception
R_Done ==
    /\ retry.pc \in {"returned", "raised"}
    /\ retry' = NoRetry
    /\ UNCHANGED <<pass_vars, cache_vars, thread_vars, hook_vars, outcome,
                   raised_exc, zip, env, safe>>

NextRetry ==
    \/ \E call \in Calls, attempts \in 1..default_attempts :
          R_WithRetries(call, attempts)
    \/ \E call \in Calls : R_Direct(call)
    \/ \E out \in Outcomes : R_Invoke(out)
    \/ R_Done

SpecRetry == InitRetry /\ [][NextRetry]_vars

(* ---------------------- process_zip on an archive ---------------------- *)
InitZip ==
    /\ PassIdle /\ CacheIdle /\ ThreadsIdle /\ HookIdle /\ RetryIdle /\ SafeIdle
    /\ CallersIdle
    /\ EnvIdle
    /\ zip \in {[NoZip EXCEPT !.archive = a] : a \in Archives}

\* lines 49-53: rows = [], header_written = False, the archive is opened
Z_Call ==
    /\ zip.pc = "idle"
    /\ zip' = [zip EXCEPT !.pc = "loop", !.i = 1]
    /\ UNCHANGED <<pass_vars, cache_vars, thread_vars, hook_vars, retry,
                   outcome, raised_exc, env, safe>>

\* lines 54-84: the next member of the archive
Z_Entry ==
    /\ zip.pc = "loop"
    /\ zip.i <= Len(zip.archive)
    /\ zip' = [process_entry(zip, zip.archive[zip.i]) EXCEPT !.i = zip.i + 1]
    /\ UNCHANGED <<pass_vars, cache_vars, thread_vars, hook_vars, retry,
                   outcome, raised_exc, env, safe>>

\* line 86: return rows
Z_Return ==
    /\ zip.pc = "loop"
    /\ zip.i > Len(zip.archive)
    /\ zip' = [zip EXCEPT !.pc = "returned"]
    /\ UNCHANGED <<pass_vars, cache_vars, thread_vars, hook_vars, retry,
                   outcome, raised_exc, env, safe>>

NextZip == Z_Call \/ Z_Entry \/ Z_Return

SpecZip == InitZip /\ [][NextZip]_vars

(* --------------------- validate_config on a config --------------------- *)
InitConfig ==
    /\ PassIdle /\ CacheIdle /\ ThreadsIdle /\ HookIdle /\ RetryIdle /\ SafeIdle
    /\ CallersIdle
    /\ ZipIdle
    /\ env \in {[NoEnv EXCEPT !.cfg = c] : c \in Configs}

\* main() and create_app call validate_config(get_config())
V_Call ==
    /\ env.pc = "idle"
    /\ env' = [env EXCEPT !.pc = "backlogs"]
    /\ UNCHANGED <<pass_vars, cache_vars, thread_vars, hook_vars, retry,
                   outcome, raised_exc, zip, safe>>

\* lines 138-144
V_Backlogs ==
    /\ env.pc = "backlogs"
    /\ env' = IF missing(env.cfg) # <<>>
              THEN [env EXCEPT !.pc = "raised",
                               !.error = "Missing required environment variables"]
              ELSE [env EXCEPT !.pc = "workflow2"]
    /\ UNCHANGED <<pass_vars, cache_vars, thread_vars, hook_vars, retry,
                   outcome, raised_exc, zip, safe>>

\* lines 146-152
V_Workflow2 ==
    /\ env.pc = "workflow2"
    /\ env' = IF workflow2_half_set(env.cfg)
              THEN [env EXCEPT !.pc = "raised",
                               !.error = "WORKFLOW2 ids must both be set"]
              ELSE [env EXCEPT !.pc = "production"]
    /\ UNCHANGED <<pass_vars, cache_vars, thread_vars, hook_vars, retry,
                   outcome, raised_exc, zip, safe>>

\* lines 154-158
V_Production ==
    /\ env.pc = "production"
    /\ env' = IF production_without_token(env.cfg)
              THEN [env EXCEPT !.pc = "raised",
                               !.error = "WEBHOOK_TOKEN is required in production"]
              ELSE [env EXCEPT !.pc = "returned"]
    /\ UNCHANGED <<pass_vars, cache_vars, thread_vars, hook_vars, retry,
                   outcome, raised_exc, zip, safe>>

NextConfig == V_Call \/ V_Backlogs \/ V_Workflow2 \/ V_Production

SpecConfig == InitConfig /\ [][NextConfig]_vars

(* ------------------ safe_process_folder on a run ----------------------- *)
InitSafe ==
    /\ PassIdle /\ CacheIdle /\ ThreadsIdle /\ HookIdle /\ RetryIdle /\ SafeIdle
    /\ CallersIdle
    /\ ZipIdle
    /\ EnvIdle

\* app/main.py:116, 242: the run calls safe_process_folder, which enters
\* with_retries(lambda: process_folder(...), "Process folder")
SPF_Call(counted) ==
    /\ safe.pc = "idle"
    /\ safe' = [NoSafe EXCEPT !.pc = "pass",
                              !.counted = counted,
                              !.outer = new_frame("process_folder",
                                                  default_attempts)]
    /\ UNCHANGED <<pass_vars, cache_vars, thread_vars, hook_vars, retry,
                   outcome, raised_exc, zip, env>>

\* utils.py:50: func() is process_folder, which begins with its first call
SPF_Pass(kind) ==
    /\ safe.pc = "pass"
    /\ safe' = [safe EXCEPT !.pc = "op",
                            !.passes = @ + 1,
                            !.ops = PassOps(kind),
                            !.inner = op_frame(Head(PassOps(kind)))]
    /\ UNCHANGED <<pass_vars, cache_vars, thread_vars, hook_vars, retry,
                   outcome, raised_exc, zip, env>>

\* the remote call of the current call site is made and gives out
SPF_Invoke(out) ==
    /\ safe.pc = "op"
    /\ safe.inner.pc = "try"
    /\ LET op == safe.inner.call
       IN  safe' = [safe EXCEPT
                      !.inner = locals(IF op_wrapped(op)
                                       THEN retry_step(safe.inner, out)
                                       ELSE direct_step(safe.inner, out)),
                      !.exc = out,
                      !.tries = IF op = safe.counted THEN @ + 1 ELSE @]
    /\ UNCHANGED <<pass_vars, cache_vars, thread_vars, hook_vars, retry,
                   outcome, raised_exc, zip, env>>

\* the call site has its result: process_folder goes on to the next one, or
\* returns, and with_retries returns its result (utils.py:50)
SPF_OpReturned ==
    /\ safe.pc = "op"
    /\ safe.inner.pc = "returned"
    /\ safe' = IF Tail(safe.ops) = <<>>
               THEN [safe EXCEPT !.pc = "returned",
                                 !.ops = <<>>,
                                 !.inner = NoRetry,
                                 !.outer = locals(retry_step(safe.outer, Ok))]
               ELSE [safe EXCEPT !.ops = Tail(@),
                                 !.inner = op_frame(Head(Tail(safe.ops)))]
    /\ UNCHANGED <<pass_vars, cache_vars, thread_vars, hook_vars, retry,
                   outcome, raised_exc, zip, env>>

\* the call site raised: the exception leaves process_folder and reaches the
\* except branch of the outer loop (utils.py:51-56), which re-raises it or
\* sleeps and runs process_folder again
SPF_OpRaised ==
    /\ safe.pc = "op"
    /\ safe.inner.pc = "raised"
    /\ LET fr == locals(retry_step(safe.outer, safe.exc))
       IN  safe' = [safe EXCEPT !.pc = IF fr.pc = "raised" THEN "raised"
                                      ELSE "pass",
                               !.ops = <<>>,
                               !.inner = NoRetry,
                               !.outer = fr]
    /\ UNCHANGED <<pass_vars, cache_vars, thread_vars, hook_vars, retry,
                   outcome, raised_exc, zip, env>>

\* the run has the result or the exception of safe_process_folder
SPF_Done ==
    /\ safe.pc \in {"returned", "raised"}
    /\ safe' = NoSafe
    /\ UNCHANGED <<pass_vars, cache_vars, thread_vars, hook_vars, retry,
                   outcome, raised_exc, zip, env>>

NextSafe ==
    \/ \E counted \in DestOps : SPF_Call(counted)
    \/ \E kind \in PassKinds : SPF_Pass(kind)
    \/ \E out \in SafeOutcomes : SPF_Invoke(out)
    \/ SPF_OpReturned
    \/ SPF_OpRaised
    \/ SPF_Done

\* the loops run by themselves and a remote call returns or raises
SpecSafe == InitSafe /\ [][NextSafe]_vars /\ WF_vars(NextSafe)

(* ------------------------------ claims -------------------------------- *)
(* ============================ claims ================================== *)
\* positions right after collect_rows_from_folder returned without raising
Collected == pc \in {"status_nonew", "append"}

\* the data rows of the sheet that came from file f
RowsOf(f) == {i \in DOMAIN sheet : sheet[i] # COLUMNS /\ sheet[i][1] = f}

\* the instant a stored timestamp denotes, 0 for null
Instant(ts) == IF ts = NullTs THEN 0 ELSE ts.t

MaxOf(S) == CHOOSE m \in S : \A x \in S : x <= m

\* C1 as stated: a non-forced pass that follows a normally completed
\* non-forced pass over the same folder listing and contents collects no rows.
C1_SecondPassCollectsNothing ==
    (Collected /\ prev_ok) => result.rows = <<>>

\* C1 amended: the same, for a workflow whose force_overwrite flag is off.
C1_SecondPassCollectsNothingUnlessOverwrite ==
    (Collected /\ prev_ok /\ ~force_overwrite) => result.rows = <<>>

\* C1 witness: the second pass over a folder whose files were merged by the
\* first skips a recorded file that has rows and reaches the no-new-rows branch.
C1_Witness ==
    /\ pc = "status_nonew"
    /\ prev_ok
    /\ ~force_overwrite
    /\ \E f \in Listed :
          /\ folder[f].rows > 0
          /\ f \in state.processed_zip_ids
          /\ f \notin Range(result.downloaded)

\* C2: after passes that all returned normally, the managed range holds the
\* rows of every file recorded in processed_zip_ids exactly once: the first
\* row of each recorded file is there, and there once.
C2_ExactlyOnceMerge ==
    (pc = "idle" /\ prev_ok /\ ~ever_failed) =>
        \A f \in disk.processed_zip_ids :
            Cardinality({i \in DOMAIN sheet : sheet[i] = <<f, 1>>}) = 1

\* C3: in every state the persisted processed_zip_ids holds the id of every
\* file that has rows in the managed range.
C3_RecordedCoversSheet ==
    \A f \in FileIds : RowsOf(f) # {} => f \in disk.processed_zip_ids

\* C6: from the moment a pass begins, the persisted last_processed_zip_time
\* is never earlier than it was when the pass began.
C6_TimestampNeverDecreases ==
    pc # "idle" =>
        Instant(pre.disk.last_processed_zip_time)
            <= Instant(disk.last_processed_zip_time)

\* C4: during and after a non-forced pass both the persisted
\* processed_zip_ids and the pass's own copy (which the caller saves on
\* return) contain every id that was persisted when the pass began.
C4_IdsOnlyGrow ==
    (pc # "idle" /\ ~ignore_last_dt) =>
        /\ pre.disk.processed_zip_ids \subseteq disk.processed_zip_ids
        /\ pre.disk.processed_zip_ids \subseteq state.processed_zip_ids

\* C4 witness: a non-forced pass that began with recorded ids has returned
\* with more ids persisted than before.
C4_Witness ==
    /\ pc = "returned"
    /\ ~ignore_last_dt
    /\ pre.disk.processed_zip_ids # {}
    /\ disk.processed_zip_ids # pre.disk.processed_zip_ids

\* modified-times of the files the pass classified new (handed to download_zip)
NewTimes == {folder[f].mtime : f \in Range(result.downloaded)}

Threshold ==
    IF ignore_last_dt THEN 0 ELSE Instant(pre.disk.last_processed_zip_time)

\* modified-times of the new files that yielded rows
MergedTimes == {folder[f].mtime : f \in Range(result.zip_ids)}

C7_NewFileClassification ==
    Collected =>
        Range(result.downloaded) =
            {f \in Listed :
                \/ force_overwrite
                \/ ignore_last_dt
                \/ state.last_processed_zip_time = NullTs
                \/ folder[f].mtime > Instant(state.last_processed_zip_time)
                \/ f \notin state.processed_zip_ids}

\* C7 witness: a forced run without force_overwrite downloads a recorded file
\* whose modified-time is older than the stored timestamp.
C7_Witness ==
    /\ Collected
    /\ ignore_last_dt
    /\ ~force_overwrite
    /\ \E f \in Range(result.downloaded) :
          /\ f \in state.processed_zip_ids
          /\ folder[f].mtime < Instant(state.last_processed_zip_time)

\* C8: from the moment a pass has collected no rows, the managed range and the
\* persisted state are what they were when the pass began, the pass's copy of
\* the state is untouched, and the pass has called nothing but the folder
\* listing and the status-cell write.
C8_NoRowsNoWrite ==
    (pc \in {"status_nonew", "returned", "raised"}
        /\ ~result.failed /\ result.rows = <<>>) =>
        /\ sheet = pre.sheet
        /\ disk = pre.disk
        /\ state = pre.disk
        /\ Range(calls) \subseteq {"status", "list"}

\* C8 witness: a pass over a filled sheet downloaded a file, got no rows and
\* returned after writing the completion time to the status cell.
C8_Witness ==
    /\ pc = "returned"
    /\ result.rows = <<>>
    /\ result.downloaded # <<>>
    /\ pre.sheet # <<>>
    /\ status = format_status_now

\* C9: when a download or extraction fails the pass has raised, the managed
\* range and the persisted state are what they were when the pass began, the
\* pass's copy of the state is untouched, and no clear, write or save was called.
C9_FailedExtractionAborts ==
    result.failed =>
        /\ pc = "raised"
        /\ sheet = pre.sheet
        /\ disk = pre.disk
        /\ state = pre.disk
        /\ Range(calls) \cap {"read", "clear", "update", "save"} = {}

\* C9 witness: the failure came after an earlier file of the listing had been
\* extracted into rows, over a sheet and a state that were not empty.
C9_Witness ==
    /\ result.failed
    /\ result.rows # <<>>
    /\ pre.sheet # <<>>
    /\ pre.disk.processed_zip_ids # {}

\* C10: whenever the pass is at, or past, the publication step, the persisted
\* state already holds the merged ids, the new timestamp, the row count and
\* this run's time, and the save was called before any publication.
C10_SavedBeforePublication ==
    (pc = "publish" \/ "publish" \in Range(calls)) =>
        /\ disk.processed_zip_ids
              = pre.disk.processed_zip_ids \cup Range(result.zip_ids)
        /\ Instant(disk.last_processed_zip_time)
              = MaxOf({Threshold} \cup MergedTimes)
        /\ disk.last_import_row_count = Len(result.rows)
        /\ disk.last_run = clock
        /\ \E i, j \in DOMAIN calls :
              calls[i] = "update" /\ calls[j] = "save" /\ i < j
        /\ \A i, j \in DOMAIN calls :
              calls[i] = "save" /\ calls[j] = "publish" => i < j

\* C10 witness: a pass that merged rows onto earlier state has published.
C10_Witness ==
    /\ "publish" \in Range(calls)
    /\ pre.disk.processed_zip_ids # {}
    /\ disk # pre.disk

\* C11: a failure in a publication step does not make process_folder fail: a
\* pass never ends by raising once it has entered send_dashboard_images.
C11_PublicationFailureNotFatal ==
    pc = "raised" => "publish" \notin Range(calls)

\* C12 as stated: a seen(k) call made at most ttl_seconds after the call that
\* first sighted k returns True, and one made more than ttl_seconds after it
\* returns False.
C12_TwoCallsWithinTtl ==
    (last.key # 0 /\ last.prior >= 0) =>
        last.ret = (last.now - last.prior <= ttl_seconds)

\* C12 amended: the same, unless the half-TTL prune of a seen call for another
\* key, made in between on a table grown past max_size, dropped k's entry.
C12_TwoCallsWithinTtlUnlessEvicted ==
    (last.key # 0 /\ last.prior >= 0) =>
        /\ (last.now - last.prior > ttl_seconds => ~last.ret)
        /\ (last.now - last.prior <= ttl_seconds /\ ~last.pruned => last.ret)

\* C12 witness: a second call exactly ttl_seconds after the first sighting
\* returned True.
C12_Witness ==
    /\ last.key # 0
    /\ last.prior >= 0
    /\ last.now - last.prior = ttl_seconds
    /\ last.ret

\* C13: an entry always holds the time of the call that first sighted its key
\* (no call that returns True rewrites it), and a call returns True only
\* within ttl_seconds of that first sighting.
C13_NeverRefreshed ==
    /\ \A k \in DOMAIN entries : k \in DOMAIN first /\ entries[k] = first[k]
    /\ (last.key # 0 /\ last.ret) =>
          (last.prior >= 0 /\ last.now - last.prior <= ttl_seconds)

\* C13 witness: a key that had been reported as duplicate is, more than
\* ttl_seconds after its first sighting, not reported any more.
C13_Witness ==
    /\ last.key # 0
    /\ ~last.ret
    /\ last.prior >= 0
    /\ last.repeated
    /\ ~last.pruned
    /\ last.now - last.prior = ttl_seconds + 1

\* C14: after every seen call the cache holds at most max_size entries.
C14_SizeBounded ==
    Cardinality(DOMAIN entries) <= max_size

\* C15: when two threads have both finished seen(k) for the same key k that
\* was in no earlier call, having entered within ttl_seconds of each other,
\* at most one of them got False.
C15_AtMostOneFirstSighting ==
    (/\ \A t \in Threads : tpc[t] = "done"
     /\ tkey[1] = tkey[2]
     /\ tkey[1] \notin DOMAIN first
     /\ tnow[1] - tnow[2] <= ttl_seconds
     /\ tnow[2] - tnow[1] <= ttl_seconds)
        => (tret[1] \/ tret[2])

\* the secret is configured and the delivered token is not it
TokenMismatch == webhook_token # "" /\ req.token # webhook_token

\* nothing the route can touch has changed since the notification arrived
Untouched ==
    /\ disk = hpre.disk
    /\ sheet = hpre.sheet
    /\ entries = hpre.entries
    /\ pc = "idle"

\* C16: a notification whose token differs from the configured secret, or is
\* absent, never gets past authentication and is answered 401, with the
\* persisted state, the destination and the dedupe cache as they were and
\* nothing called; with no secret configured no notification is answered 401.
C16_WebhookAuthentication ==
    /\ (hpc \in {"sync", "dedupe", "load"} => ~TokenMismatch)
    /\ (hpc = "responded" /\ req # NoReq /\ TokenMismatch) =>
          resp = [code |-> 401, body |-> "invalid token"]
    /\ (hpc = "responded" /\ resp.code = 401) =>
          (TokenMismatch /\ Untouched /\ hcalls = <<>>)
    /\ (webhook_token = "" => resp.code # 401)

\* C16 witness: a notification without token was answered 401 over a state
\* with recorded files, a filled destination and a cache that holds a key.
C16_Witness ==
    /\ hpc = "responded"
    /\ resp.code = 401
    /\ req.token = "absent"
    /\ hpre.disk.processed_zip_ids # {}
    /\ hpre.sheet # <<>>
    /\ hpre.entries # <<>>

\* C17: an authenticated notification with resource state "sync" is answered
\* 200 with an empty body right after authentication: the persisted state and
\* the destination are untouched, the dedupe cache is neither asked nor
\* changed, and neither the change scan nor the reconciler runs.
C17_SyncHandshake ==
    (/\ hpc \notin {"idle", "auth", "sync"}
     /\ req # NoReq
     /\ req.resource_state = "sync"
     /\ ~TokenMismatch)
        => /\ hpc = "responded"
           /\ resp = [code |-> 200, body |-> ""]
           /\ Untouched
           /\ hcalls = <<>>

\* C17 witness: a handshake was acknowledged while the cache held a live
\* entry of an earlier notification with the same resource, message and
\* channel headers.
C17_Witness ==
    /\ hpc = "responded"
    /\ req.resource_state = "sync"
    /\ resp = [code |-> 200, body |-> ""]
    /\ live(entries, dedupe_key_of([req EXCEPT !.resource_state = "change"]),
            time)

\* the notification being handled has a key with a live entry from before
Duplicate ==
    /\ req # NoReq
    /\ ~TokenMismatch
    /\ req.resource_state # "sync"
    /\ live(hpre.entries, dedupe_key_of(req), time)

\* a delivery went on to be handled although one with the same key was
\* handled at most ttl_seconds earlier
HandledAgain ==
    /\ hpc = "load"
    /\ dedupe_key_of(req) \in DOMAIN handled
    /\ time - handled[dedupe_key_of(req)] <= ttl_seconds

\* C18 as stated: a notification whose key has a live entry ends as a
\* duplicate, with the state not loaded or saved, the feed not read, the
\* cursor not advanced and neither reset nor reconcile run; and no delivery is
\* handled within ttl_seconds of a handled delivery with the same key.
C18_DuplicateIsNoOp ==
    /\ (hpc \notin {"idle", "auth", "sync", "dedupe"} /\ Duplicate) =>
          /\ hpc = "responded"
          /\ resp = [code |-> 200, body |-> "deduped"]
          /\ disk = hpre.disk
          /\ sheet = hpre.sheet
          /\ pc = "idle"
          /\ hcalls = <<"seen">>
    /\ ~HandledAgain

\* C18 amended: the same, the second part for keys that are not empty: a
\* notification with none of the four headers has the empty key, which is
\* never looked up.
C18_DuplicateIsNoOpForNonEmptyKey ==
    /\ (hpc \notin {"idle", "auth", "sync", "dedupe"} /\ Duplicate) =>
          /\ hpc = "responded"
          /\ resp = [code |-> 200, body |-> "deduped"]
          /\ disk = hpre.disk
          /\ sheet = hpre.sheet
          /\ pc = "idle"
          /\ hcalls = <<"seen">>
    /\ (HandledAgain => dedupe_key_of(req) = <<>>)

\* C18 witness: the redelivery, exactly ttl_seconds later, of a notification
\* that had been handled was answered as a duplicate.
C18_Witness ==
    /\ hpc = "responded"
    /\ resp.body = "deduped"
    /\ dedupe_key_of(req) \in DOMAIN handled
    /\ time - handled[dedupe_key_of(req)] = ttl_seconds

\* the route has loaded a state without cursor for this notification
NoCursorLoaded ==
    /\ "load_state" \in Range(hcalls)
    /\ hpre.disk.page_token = NoToken

\* C19: when the loaded state has no cursor, handle_drive_changes never reads
\* the change feed, clears the destination or calls the reconciler; when it
\* returns it has fetched a start token and saved it as the cursor, nothing
\* else of the state or the destination has changed, and it returned false.
C19_FirstRunBootstrap ==
    NoCursorLoaded =>
        /\ Range(hcalls) \cap {"changes.list", "clear", "process_folder"} = {}
        /\ pc = "idle"
        /\ sheet = hpre.sheet
        /\ (hpc = "responded" /\ resp.code = 200) =>
              /\ resp.body = "changed: false"
              /\ disk = [hpre.disk EXCEPT
                             !.page_token = get_start_page_token]
              /\ \E i \in DOMAIN hcalls :
                    /\ i < Len(hcalls)
                    /\ hcalls[i] = "get_start_page_token"
                    /\ hcalls[i + 1] = "save_state"

\* C19 witness: the first notification of a fresh deployment was answered
\* "changed: false" with the start token persisted.
C19_Witness ==
    /\ hpc = "responded"
    /\ NoCursorLoaded
    /\ resp = [code |-> 200, body |-> "changed: false"]
    /\ disk.page_token = get_start_page_token
    /\ folder[1] # NoFile

\* what the claim says a change record flags; "ends in .zip" is read without
\* regard to case
ClaimedZipName(name) == name \in {"report.zip", "Report.ZIP"}

ClaimedDelete(c, ids) ==
    IF ~c.has_file THEN c.fileId \in ids
    ELSE IF c.trashed
    THEN \/ /\ ClaimedZipName(c.name)
            /\ (c.parents = {} \/ "watched" \in c.parents)
         \/ c.fileId \in ids
    ELSE FALSE

ClaimedRescan(c) ==
    IF ~c.has_file \/ c.trashed THEN FALSE ELSE "watched" \in c.parents

\* C20: every step that classifies a change record raises deleted_zip exactly
\* when (1) the metadata is absent and the id is recorded, or (2) the file is
\* trashed and either its name (compared in lower case) ends in .zip and it
\* has no parent or the watched folder as parent, or its id is recorded; and
\* raises changed exactly when (3) the file is there, not trashed, and has
\* the watched folder as parent. Flags already raised stay raised.
C20_ChangeClassification ==
    [][hpc = "scan" =>
          /\ deleted_zip' =
                (deleted_zip \/ \E i \in DOMAIN page.changes :
                    ClaimedDelete(page.changes[i], hstate.processed_zip_ids))
          /\ changed' =
                (changed \/ \E i \in DOMAIN page.changes :
                    ClaimedRescan(page.changes[i]))]_vars

\* C20 witness: a scan over a state with no recorded id has flagged a delete
\* and no rescan: the change was a trashed .zip without parent or in the
\* watched folder, with an id that is not tracked.
C20_Witness ==
    /\ hpc = "save_cursor"
    /\ deleted_zip
    /\ ~changed
    /\ hstate.processed_zip_ids = {}

\* the scan of the current notification has consumed the last page of the feed
ScanDone ==
    /\ hpc \in {"resolve", "clear_save", "process", "responded"}
    /\ new_start_token # NoToken

\* C21: once handle_drive_changes has read the last page of the change feed,
\* the persisted cursor is the new start token that page carried, and it stays
\* so while the destination is reset or the folder reconciled, and when that
\* fails, succeeds or is not needed.
C21_CursorPersistedAfterScan ==
    ScanDone => disk.page_token = new_start_token

\* C21 witness: the reset that followed a scan failed; the notification is
\* answered 500 and the persisted cursor is the feed's new token, not the one
\* the scan started from.
C21_Witness ==
    /\ ScanDone
    /\ hpc = "responded"
    /\ resp.code = 500
    /\ disk.page_token = new_start_token
    /\ hpre.disk.page_token # new_start_token

\* how often the route has called f for the current notification
TimesCalled(f) == Cardinality({i \in DOMAIN hcalls : hcalls[i] = f})

\* the ingestion fields of a state
IngestionFields(st) ==
    <<st.processed_zip_ids, st.last_processed_zip_time,
      st.last_import_row_count>>

\* C22: after a scan, (a) with a delete flagged, with or without a rescan, the
\* reconciler is never invoked, and when handle_drive_changes returns the
\* managed range is empty and the saved state has no processed ids, a null
\* timestamp and row count 0; (b) with only a rescan flagged the reconciler
\* is invoked exactly once, not forced, and nothing is cleared by the
\* handler; (c) with neither flagged the destination and the ingestion fields
\* are as they were and neither is called.
C22_ResolutionAfterScan ==
    /\ (ScanDone /\ deleted_zip) =>
          /\ TimesCalled("process_folder") = 0
          /\ pc = "idle"
          /\ (hpc = "responded" /\ resp.code = 200) =>
                /\ sheet = <<>>
                /\ IngestionFields(disk) = <<{}, NullTs, 0>>
                /\ disk = hstate
                /\ hcalls[Len(hcalls)] = "save_state"
                /\ hcalls[Len(hcalls) - 1] = "clear"
    /\ (ScanDone /\ ~deleted_zip /\ changed) =>
          /\ TimesCalled("clear") = 0
          /\ hpc \in {"process", "responded"} =>
                TimesCalled("process_folder") = 1
          /\ hpc = "process" => ~ignore_last_dt
    /\ (ScanDone /\ ~deleted_zip /\ ~changed) =>
          /\ TimesCalled("clear") = 0
          /\ TimesCalled("process_folder") = 0
          /\ pc = "idle"
          /\ sheet = hpre.sheet
          /\ IngestionFields(disk) = IngestionFields(hpre.disk)

\* C22 witness: a scan that flagged both a delete and a rescan ended with the
\* rows of an earlier import cleared and its record reset.
C22_Witness ==
    /\ ScanDone
    /\ deleted_zip
    /\ changed
    /\ hpc = "responded"
    /\ resp.code = 200
    /\ hpre.sheet # <<>>
    /\ hpre.disk.processed_zip_ids # {}
    /\ sheet = <<>>
    /\ disk.processed_zip_ids = {}

\* handle_drive_changes has returned a value to the route
Returned ==
    /\ hpc = "responded"
    /\ resp.code = 200
    /\ TimesCalled("load_state") = 1

ReturnedTrue == Returned /\ resp.body = "changed: true"

\* C23 as stated: handle_drive_changes returns true exactly when the persisted
\* state or the managed range differs from what it was when the pass began.
C23_ReturnsWhetherStateChanged ==
    Returned => (ReturnedTrue <=> (disk # hpre.disk \/ sheet # hpre.sheet))

\* C23 amended: handle_drive_changes returns true exactly when the scan
\* flagged a delete or a rescan, that is when it reset the destination or
\* invoked the reconciler, and false otherwise, also when it persisted a new
\* cursor.
C23_ReturnsWhetherActionTaken ==
    Returned =>
        /\ ReturnedTrue <=> (ScanDone /\ (deleted_zip \/ changed))
        /\ ReturnedTrue <=>
              (TimesCalled("clear") + TimesCalled("process_folder") = 1)

\* C23 witness: true was returned for a rescan in which the reconciler found
\* no new rows: the managed range and the ingestion fields are as before.
C23_Witness ==
    /\ ReturnedTrue
    /\ TimesCalled("process_folder") = 1
    /\ sheet = hpre.sheet
    /\ IngestionFields(disk) = IngestionFields(hpre.disk)

\* overwrite_sheet has returned, or has raised from its clear or update call
OverwriteOver ==
    \/ pc = "save"
    \/ /\ pc = "raised"
       /\ calls # <<>>
       /\ calls[Len(calls)] \in {"clear", "update"}

\* C24: whenever overwrite_sheet returns or raises, the managed range holds
\* exactly what it held before the call or exactly the new values.
C24_OverwriteAtomic ==
    OverwriteOver => sheet \in {pre.sheet, all_rows}

\* an HttpError with a 5xx status
Is5xx(out) == out.exc = "HttpError" /\ out.status \in 500..599

\* C25: with_retries invokes the wrapped call at most attempts times, again
\* only after a failure that is an HttpError with a 5xx status; any other
\* failure, and the failure of attempt number attempts, propagates right
\* after that call; the first result is returned with no further call; the
\* sleep before retry n is 2^(n-1) seconds.
C25_RetryPolicy ==
    wrapped(retry.call) =>
        LET n == Len(retry.outs)
            over == retry.pc \in {"returned", "raised"}
        IN  /\ n <= retry.attempts
            /\ \A i \in 1..(n - 1) : Is5xx(retry.outs[i])
            /\ retry.pc = "try" =>
                  /\ n < retry.attempts
                  /\ n > 0 => Is5xx(retry.outs[n])
            /\ retry.pc = "returned" => retry.outs[n] = Ok
            /\ retry.pc = "raised" =>
                  /\ retry.outs[n] # Ok
                  /\ n = retry.attempts \/ ~Is5xx(retry.outs[n])
            /\ Len(retry.sleeps) = IF over THEN n - 1 ELSE n
            /\ \A k \in DOMAIN retry.sleeps : retry.sleeps[k] = 2^(k - 1)

\* C25 witness: with the default of five attempts, four 5xx failures were
\* slept over for 1, 2, 4 and 8 seconds and the fifth propagated.
C25_Witness ==
    /\ retry.pc = "raised"
    /\ retry.attempts = default_attempts
    /\ Len(retry.outs) = default_attempts
    /\ Is5xx(retry.outs[default_attempts])
    /\ retry.sleeps = <<1, 2, 4, 8>>

\* C26: a Drive call of a notification-triggered pass (the start token, a
\* page of changes, the folder listing, a download) that fails with a 5xx
\* status raises to its caller only after the fixed number of attempts.
C26_DriveCallsRetried ==
    (/\ retry.pc = "raised"
     /\ retry.call \in {"changes.getStartPageToken", "changes.list",
                        "files.list", "files.get_media"}
     /\ Is5xx(retry.outs[Len(retry.outs)]))
        => Len(retry.outs) = default_attempts

\* the fields load_state gives when it cannot read the file
IsInitialState(st) ==
    /\ st.processed_zip_ids = {}
    /\ st.last_processed_zip_time = NullTs
    /\ st.page_token = NoToken
    /\ st.channel_id = 0
    /\ st.channel_resource_id = ""
    /\ st.channel_expiration = 0

FreshlyLoaded(st) == IF file = "json" THEN st = disk ELSE IsInitialState(st)

C28_LastSaveWins ==
    [][disk' # disk => disk' \in {state, state', hstate, hstate'}]_vars

\* a run pass imported file 1 and returned normally, having recorded the id;
\* the notification pass that overlapped it cleared nothing, yet after its
\* save of the cursor the persisted processed ids are empty
C28_Witness ==
    /\ pc = "idle"
    /\ prev_ok
    /\ clock = 1
    /\ sheet # <<>>
    /\ ScanDone
    /\ TimesCalled("clear") = 0
    /\ TimesCalled("process_folder") = 0
    /\ disk.processed_zip_ids = {}

ChannelTriple(st) ==
    <<st.channel_id, st.channel_resource_id, st.channel_expiration>>

\* no watch registered: the three fields are null
NoChannel == <<0, "", 0>>

\* the watch route answered 400 or 500: register_changes_watch raised
WatchFailed ==
    /\ hpc = "responded"
    /\ resp.body \in {"WEBHOOK_URL is required", "watch registration failed"}

\* C29: the persisted channel_id, channel_resource_id and channel_expiration
\* are together the three nulls of no registration or together the id,
\* resourceId and expiration of one answer of changes().watch, never a mix;
\* and when register_changes_watch fails (no webhook URL, or a remote call
\* raises) the persisted state is what it was when the request came in.
C29_WatchReplacedWholesale ==
    /\ ChannelTriple(disk) \in
          {NoChannel} \cup {<<r.id, r.resourceId, r.expiration>> :
                               r \in registered}
    /\ WatchFailed => disk = hpre.disk

\* a second registration has replaced the first one
C29_Witness ==
    /\ Cardinality(registered) = 2
    /\ ChannelTriple(hpre.disk) # NoChannel
    /\ ChannelTriple(disk) # ChannelTriple(hpre.disk)
    /\ hpc = "responded"
    /\ resp = [code |-> 200, body |-> "watch"]

\* C30: an exception raised inside handle_drive_changes (by one of its own
\* calls or by the pass it runs) is answered by the webhook route with status
\* 500 and the fixed body "webhook failure", whatever was raised; an
\* exception raised inside a run started by the run route or the command
\* line reaches the caller, and no answer is built for it.
C30_ErrorPropagation ==
    [][/\ (hpc' = "responded" /\ raised_exc' # "") =>
              resp' = [code |-> 500, body |-> "webhook failure"]
       /\ (pc = "raised" /\ pc' = "idle") =>
              IF hpc = "process"
              THEN raised_exc' # "" /\ outcome' = outcome
              ELSE outcome' = "exception" /\ resp' = resp
                   /\ raised_exc' = raised_exc]_vars

\* a run has raised to its caller, and a later notification whose pass
\* raised is being answered
C30_Witness ==
    /\ outcome = "exception"
    /\ hpc = "responded"
    /\ raised_exc = "process_folder"
    /\ resp.code = 500

\* an archive member with a .csv extension, in either case
IsCsvEntry(e) == e.name \in {"a.csv", "B.CSV"}

\* the cell of record r of entry e under the column whose trimmed name is col
CellOf(e, r, col) ==
    IF \E j \in DOMAIN e.header : strip(e.header[j]) = col
    THEN e.records[r][CHOOSE j \in DOMAIN e.header : strip(e.header[j]) = col]
    ELSE ""

\* every filter column of the record, trimmed, is the configured value
PassesFilters(e, r) ==
    /\ strip(CellOf(e, r, "Receiver type")) = "Station"
    /\ strip(CellOf(e, r, "Current Station")) = "SOC 5"

\* the destination columns of the record, in their order
Projected(e, r) ==
    <<CellOf(e, r, "TO Number"), CellOf(e, r, "Remark"),
      CellOf(e, r, "Staging Area ID")>>

\* the matching records of one entry, in file order
MatchingOf(e) ==
    IF ~IsCsvEntry(e) THEN <<>>
    ELSE LET idx == SelectSeq([r \in DOMAIN e.records |-> r],
                              LAMBDA r : PassesFilters(e, r))
         IN  [k \in DOMAIN idx |-> Projected(e, idx[k])]

RECURSIVE MatchingRows(_)
\* the matching records of all CSV entries, in archive order
MatchingRows(a) ==
    IF a = <<>> THEN <<>> ELSE MatchingOf(Head(a)) \o MatchingRows(Tail(a))

\* C31: when process_zip returns, its result is the empty list if no record
\* of any CSV entry passes the filters, and otherwise the header row followed
\* by the matching records in archive order: one header, at index 0, however
\* many entries gave rows; entries without a .csv extension give nothing.
C31_OutputShape ==
    zip.pc = "returned" =>
        LET m == MatchingRows(zip.archive)
        IN  /\ m = <<>> => zip.rows = <<>>
            /\ m # <<>> =>
                  /\ Len(zip.rows) = 1 + Len(m)
                  /\ zip.rows[1] = <<"TO Number", "Remark", "Staging Area ID">>
                  /\ \A i \in 2..Len(zip.rows) :
                        /\ zip.rows[i] # zip.rows[1]
                        /\ zip.rows[i][1] = m[i - 1][1]

\* the case of the specification's test: one CSV entry whose records all
\* fail, then one with a single matching record: header and that record
C31_Witness ==
    /\ zip.pc = "returned"
    /\ Len(zip.archive) = 2
    /\ \A i \in 1..2 : IsCsvEntry(zip.archive[i])
    /\ zip.archive[1].records # <<>>
    /\ MatchingOf(zip.archive[1]) = <<>>
    /\ Len(zip.archive[2].records) = 1
    /\ Len(MatchingOf(zip.archive[2])) = 1
    /\ zip.rows = <<CsvColumns>> \o MatchingOf(zip.archive[2])

\* C32: a record of a CSV entry is in the result exactly when each filter
\* column, trimmed, equals its configured value (both filters); every row of
\* the result has exactly the destination columns in their order, "" where
\* the entry lacks the column, and no filter column.
C32_FilterAndProjection ==
    zip.pc = "returned" =>
        /\ \A i \in DOMAIN zip.archive :
              IsCsvEntry(zip.archive[i]) =>
                 \A r \in DOMAIN zip.archive[i].records :
                    PassesFilters(zip.archive[i], r) <=>
                       \E k \in 2..Len(zip.rows) :
                          zip.rows[k] = Projected(zip.archive[i], r)
        /\ \A k \in 2..Len(zip.rows) :
              /\ Len(zip.rows[k]) = 3
              /\ \E i \in DOMAIN zip.archive :
                    \E r \in DOMAIN zip.archive[i].records :
                       /\ IsCsvEntry(zip.archive[i])
                       /\ PassesFilters(zip.archive[i], r)
                       /\ zip.rows[k] = Projected(zip.archive[i], r)

\* a record whose filter cell is padded was kept from an entry without the
\* Remark column, next to one rejected for its station
C32_Witness ==
    /\ zip.pc = "returned"
    /\ zip.rows = <<CsvColumns, <<"TO2", "", "STA">>>>
    /\ Len(zip.archive) = 1
    /\ Len(zip.archive[1].records) = 2

\* what the claim lists as grounds for a configuration error
BacklogsLacksId ==
    env.cfg.backlogs.drive_parent_folder_id = ""
    \/ env.cfg.backlogs.dest_sheet_id = ""

Workflow2ExactlyOne ==
    (env.cfg.workflow2.drive_parent_folder_id = "")
        # (env.cfg.workflow2.dest_sheet_id = "")

InsecureProduction ==
    /\ env.cfg.app_env \in {"production", "prod"}
    /\ env.cfg.webhook_token = ""
    /\ env.cfg.allow_insecure_webhook = FALSE

\* C33: validate_config raises a configuration error exactly when the
\* backlogs workflow lacks its folder id or its destination sheet id, or
\* workflow2 has exactly one of the two set, or the environment is
\* production/prod without a webhook token and without
\* ALLOW_INSECURE_WEBHOOK; otherwise it returns.
C33_ValidateConfig ==
    env.pc \in {"raised", "returned"} =>
        /\ env.pc = "raised" <=>
              (BacklogsLacksId \/ Workflow2ExactlyOne \/ InsecureProduction)
        /\ env.pc = "returned" <=> env.error = ""

\* raised only because workflow2 has a folder id and no sheet id
C33_Witness ==
    /\ env.pc = "raised"
    /\ ~BacklogsLacksId
    /\ ~InsecureProduction
    /\ env.cfg.workflow2.dest_sheet_id = ""

\* C34: after every process_folder run that completes, a run that found no
\* new rows included, last_run is the time of that run and
\* last_import_row_count is the number of rows that run imported.
C34_ObservabilityOverwritten ==
    pc = "returned" =>
        /\ state.last_run = clock
        /\ state.last_import_row_count = Len(result.rows)

\* C35: when a reconcile pass completes, every file it classified new,
\* downloaded and extracted is recorded: its id is among the processed ids
\* and its modified-time is at most the running maximum, also when its
\* extraction gave no matching rows.
C35_EveryExtractedFileRecorded ==
    pc = "returned" =>
        \A i \in DOMAIN result.downloaded :
            /\ result.downloaded[i] \in state.processed_zip_ids
            /\ folder[result.downloaded[i]].mtime <= result.max_dt

\* after the scan, the reset raised, or the pass run by handle_drive_changes
\* has raised
ActionFailed ==
    \/ hpc = "responded" /\ raised_exc = "clear"
    \/ hpc = "process" /\ pc = "raised"

\* the pass raised in a call that follows its save of the state
RaisedAfterSave ==
    /\ hpc = "process"
    /\ pc = "raised"
    /\ "save" \in Range(calls)
    /\ calls[Len(calls)] # "save"

\* C36 as stated: when the reset or the reconcile that follows the scan
\* fails, the persisted cursor is the new token and the persisted processed
\* ids, last-processed timestamp and row count are what they were before the
\* pass.
C36_FailedActionKeepsFields ==
    ActionFailed =>
        /\ disk.page_token = new_start_token
        /\ IngestionFields(disk) = IngestionFields(hpre.disk)

\* C36 amended: when the reset fails, or the reconcile fails before it has
\* saved the state, the persisted cursor is the new token and the persisted
\* processed ids, timestamp and row count are what they were before the pass;
\* when the reconcile fails after its save (in the completion status write or
\* in publishing) the cursor is the new token and the three fields are the
\* ones the reconcile saved.
C36_FailedActionKeepsFieldsUnlessSaved ==
    ActionFailed =>
        /\ disk.page_token = new_start_token
        /\ IngestionFields(disk) =
              IF RaisedAfterSave THEN IngestionFields(state)
              ELSE IngestionFields(hpre.disk)

\* the pass merged a file's rows, saved, and then raised: the persisted ids
\* are no longer the pre-pass ones
C36_Witness ==
    /\ RaisedAfterSave
    /\ disk.page_token = new_start_token
    /\ disk.processed_zip_ids # hpre.disk.processed_zip_ids

\* a delivery goes on to be handled although the handling of one with the
\* same key ended in 500 at most ttl_seconds earlier
HandledAgainAfterFailure ==
    /\ hpc = "load"
    /\ dedupe_key_of(req) \in DOMAIN failed
    /\ time - failed[dedupe_key_of(req)] <= ttl_seconds

\* C37: the key of a notification is in the DedupeCache from before its
\* handling begins and stays there when the handling fails; a redelivery of
\* a notification whose handling ended in 500, within the TTL, is answered as
\* a duplicate and not handled.
C37_FailedDeliveryStaysDeduped ==
    /\ hkey # NoKey => live(entries, hkey, time)
    /\ ~HandledAgainAfterFailure

\* the reset's save has just been written: clear, then save_state, then the
\* answer
ResetSaved ==
    /\ hpc = "responded"
    /\ Len(hcalls) >= 2
    /\ hcalls[Len(hcalls) - 1] = "clear"
    /\ hcalls[Len(hcalls)] = "save_state"

\* C38: a delete-triggered reset changes only the ingestion fields. The
\* successful clear resets processed ids, timestamp and row count and sets
\* last_run, and leaves the cursor and the watch registration as the scan
\* left them; the following save persists exactly that; and when the remote
\* clear fails neither the dict nor the file is changed.
C38_ResetTouchesOnlyIngestion ==
    [][/\ (hpc = "resolve" /\ hpc' = "clear_save") =>
            /\ IngestionFields(hstate') = <<{}, NullTs, 0>>
            /\ hstate'.last_run = clock
            /\ hstate'.page_token = hstate.page_token
            /\ ChannelTriple(hstate') = ChannelTriple(hstate)
       /\ (hpc = "clear_save" /\ hpc' = "responded") =>
            /\ IngestionFields(disk') = <<{}, NullTs, 0>>
            /\ disk'.last_run = clock
            /\ disk'.page_token = hstate.page_token
            /\ ChannelTriple(disk') = ChannelTriple(hstate)
            /\ new_start_token # NoToken => disk'.page_token = new_start_token
       /\ (hpc = "resolve" /\ deleted_zip /\ hpc' = "responded") =>
            /\ hstate' = hstate
            /\ disk' = disk
            /\ sheet' = sheet]_vars

\* C38 witness: with a watch registered and files imported, a delete was
\* resolved: the file holds the reset fields next to the new cursor and the
\* registration
C38_Witness ==
    /\ ResetSaved
    /\ hpre.disk.processed_zip_ids # {}
    /\ ChannelTriple(hpre.disk) # NoChannel
    /\ ChannelTriple(disk) = ChannelTriple(hpre.disk)
    /\ disk.page_token = new_start_token
    /\ disk.page_token # hpre.disk.page_token
    /\ disk.processed_zip_ids = {}

\* process_folder is between its first status write and its completion write
BetweenStatusWrites ==
    pc \in {"collect", "status_nonew", "append", "clear", "update", "save",
            "status_done"}

\* process_folder raised after the first status write had been made and
\* before a completion write was made: the raising call is not the first
\* call of the pass and not the publishing that follows the completion write
FailedBetweenStatusWrites ==
    /\ pc = "raised"
    /\ Len(calls) >= 2
    /\ calls[Len(calls)] # "publish"

\* C39: the first thing process_folder does is write "Fetching data..." to
\* the status cell; when it returns normally, with rows merged or without
\* new rows, the cell holds the formatted completion time; when it fails
\* after the first write and before the completion write, the cell is left
\* at "Fetching data...".
C39_StatusCellProtocol ==
    /\ (pc \notin {"idle", "status_fetch"} /\ calls # <<>>) =>
           calls[1] = "status"
    /\ BetweenStatusWrites => (calls # <<>> /\ status = Fetching)
    /\ pc = "returned" => status = format_status_now
    /\ FailedBetweenStatusWrites => status = Fetching

\* C39 witness: a pass that followed a completed one failed in the merge:
\* the cell, which held a completion time, is left at "Fetching data..."
C39_Witness ==
    /\ FailedBetweenStatusWrites
    /\ prev_ok
    /\ calls[Len(calls)] \in {"clear", "update"}
    /\ status = Fetching

\* safe_process_folder has returned or raised
SafeEnded == safe.pc \in {"returned", "raised"}

\* C40: a call of safe_process_folder terminates; within it each destination
\* operation (clear, write, status write) is attempted at most
\* default_attempts times in total, and process_folder is executed at most
\* default_attempts times.
C40_RetryBound ==
    /\ [](safe.tries <= default_attempts)
    /\ [](safe.passes <= default_attempts)
    /\ (safe.pc # "idle") ~> SafeEnded

====
